---- MODULE Spec2Model ----
(***************************************************************************)
(* Verification model of gazprom_bot: the simulated execution pipeline     *)
(* (ExecutionSimulator, RiskManager), the two drivers that feed signals to *)
(* it (TradingEngine._process_signal and the loop of BacktestRunner.run),  *)
(* the TradingEngine lifecycle with its two background tasks, and the      *)
(* circuit breaker / retry loop of AsyncMoexClient.                        *)
(*                                                                         *)
(* Money is kept in integers.  A price quoted as p roubles is the integer  *)
(* p; an execution price is kept in units of 1/Scale rouble so that        *)
(* slippage and commission (both rationals) stay exact; stop-loss and      *)
(* take-profit prices are kept in units of 1/(Scale*StopScale) rouble.     *)
(***************************************************************************)
EXTENDS Integers, Sequences, FiniteSets, TLC

(***************************************************************************)
(* Configuration (gazprom_bot.config.Config is read by the code, its       *)
(* values are inputs of the program).                                      *)
(***************************************************************************)
MaxTradesPerDay == 2
DailyLossLimitRub == 10
MaxPositionRub == 60
LotSize == 2
SlipNum == 1
SlipDen == 10
CommNum == 1
CommDen == 100
PctDen == 100
StopLossPctMax == 1
TakeProfitPctMin == 2
TakeProfitPctMax == 3
RrNum == 3
RrDen == 2

Scale == SlipDen * CommDen
StopScale == PctDen * RrDen

\* Python's None for optional numbers and optional records.
None == -1
NoPosition == [entry_price |-> None, qty_shares |-> 0, sl_price |-> None, tp_price |-> None]
NoTrade == [side |-> "NONE", exec_price |-> None, qty_lots |-> 0, qty_shares |-> 0,
            gross_value |-> 0, commission |-> 0, slippage_value |-> 0, net_value |-> 0]

\* Python truthiness of an optional number: None and 0 are both falsy.
Truthy(x) == x # None /\ x # 0

Min(a, b) == IF a <= b THEN a ELSE b
Max(a, b) == IF a >= b THEN a ELSE b
Abs(a) == IF a < 0 THEN 0 - a ELSE a

(***************************************************************************)
(* ExecutionSimulator                                                      *)
(***************************************************************************)
\* price is in 1/Scale rouble, cash_limit_rub in roubles.
\* position_value_limit_sizing rounding the lots up instead of down.
position_value_limit_sizing_roundup(price, lot_size, cash_limit_rub) ==
    IF price = None \/ price <= 0 \/ lot_size <= 0 \/ cash_limit_rub <= 0
    THEN [qty_lots |-> 0, qty_shares |-> 0]
    ELSE LET max_shares == (cash_limit_rub * Scale) \div price
             qty_lots == Max(0, (max_shares + lot_size - 1) \div lot_size)
         IN [qty_lots |-> qty_lots, qty_shares |-> qty_lots * lot_size]

position_value_limit_sizing(price, lot_size, cash_limit_rub) ==
    IF price = None \/ price <= 0 \/ lot_size <= 0 \/ cash_limit_rub <= 0
    THEN [qty_lots |-> 0, qty_shares |-> 0]
    ELSE LET max_shares == (cash_limit_rub * Scale) \div price
             qty_lots == Max(0, max_shares \div lot_size)
         IN [qty_lots |-> qty_lots, qty_shares |-> qty_lots * lot_size]

calc_exec_price(side, best_bid, best_ask) ==
    IF side = "BUY"
    THEN IF best_ask = None \/ best_ask <= 0 THEN None
         ELSE best_ask * (SlipDen + SlipNum) * CommDen
    ELSE IF best_bid = None \/ best_bid <= 0 THEN None
         ELSE best_bid * (SlipDen - SlipNum) * CommDen

\* execute without its `if qty_shares <= 0: return None`.
execute_zero_fill(inp) ==
    LET exec_price == calc_exec_price(inp.side, inp.best_bid, inp.best_ask)
        desired == inp.desired_position_shares
        byLots == LET l == Max(0, desired \div inp.lot_size)
                  IN [qty_lots |-> l, qty_shares |-> l * inp.lot_size]
        lim == position_value_limit_sizing(exec_price, inp.lot_size, inp.max_position_rub)
        qty == IF Truthy(desired) /\ desired > 0
               THEN IF byLots.qty_shares * exec_price > inp.max_position_rub * Scale
                    THEN lim ELSE byLots
               ELSE lim
        gross_value == exec_price * qty.qty_shares
        commission == (gross_value \div CommDen) * CommNum
        best_ref == IF inp.side = "BUY" THEN inp.best_ask ELSE inp.best_bid
        slip_unit == IF inp.side = "BUY" THEN exec_price - best_ref * Scale
                     ELSE best_ref * Scale - exec_price
    IN IF exec_price = None THEN NoTrade
       ELSE [side |-> inp.side, exec_price |-> exec_price,
             qty_lots |-> qty.qty_lots, qty_shares |-> qty.qty_shares,
             gross_value |-> gross_value, commission |-> commission,
             slippage_value |-> Max(0, slip_unit) * qty.qty_shares,
             net_value |-> IF inp.side = "BUY" THEN 0 - (gross_value + commission)
                           ELSE gross_value - commission]

\* inp = [side, best_bid, best_ask, lot_size, max_position_rub, desired_position_shares]
execute(inp) ==
    LET exec_price == calc_exec_price(inp.side, inp.best_bid, inp.best_ask)
        desired == inp.desired_position_shares
        byLots == LET l == Max(0, desired \div inp.lot_size)
                  IN [qty_lots |-> l, qty_shares |-> l * inp.lot_size]
        lim == position_value_limit_sizing(exec_price, inp.lot_size, inp.max_position_rub)
        qty == IF Truthy(desired) /\ desired > 0
               THEN IF byLots.qty_shares * exec_price > inp.max_position_rub * Scale
                    THEN lim ELSE byLots
               ELSE lim
        gross_value == exec_price * qty.qty_shares
        commission == (gross_value \div CommDen) * CommNum
        best_ref == IF inp.side = "BUY" THEN inp.best_ask ELSE inp.best_bid
        slip_unit == IF inp.side = "BUY" THEN exec_price - best_ref * Scale
                     ELSE best_ref * Scale - exec_price
    IN IF exec_price = None THEN NoTrade
       ELSE IF qty.qty_shares <= 0 THEN NoTrade
       ELSE [side |-> inp.side, exec_price |-> exec_price,
             qty_lots |-> qty.qty_lots, qty_shares |-> qty.qty_shares,
             gross_value |-> gross_value, commission |-> commission,
             slippage_value |-> Max(0, slip_unit) * qty.qty_shares,
             net_value |-> IF inp.side = "BUY" THEN 0 - (gross_value + commission)
                           ELSE gross_value - commission]

(***************************************************************************)
(* RiskManager                                                             *)
(***************************************************************************)
NewDayStats == [trades_count |-> 0, realized_pnl_rub |-> 0, realized_loss_rub |-> 0]

\* allow_new_trade with the trade-count limit off by one (> for >=).
allow_new_trade_offbyone(stats) ==
    IF stats.trades_count > MaxTradesPerDay THEN FALSE
    ELSE IF stats.realized_loss_rub >= DailyLossLimitRub * Scale THEN FALSE
    ELSE TRUE

\* realized_loss_rub is kept in 1/Scale rouble.
allow_new_trade(stats) ==
    IF stats.trades_count >= MaxTradesPerDay THEN FALSE
    ELSE IF stats.realized_loss_rub >= DailyLossLimitRub * Scale THEN FALSE
    ELSE TRUE

\* sl_price and tp_price are in 1/(Scale*StopScale) rouble.
\* self.risk of the RiskManager the engine and the backtest use: percentages
\* in 1/PctDen, min_rr in 1/RrDen.
RiskLimits ==
    [stop_loss_pct_max |-> StopLossPctMax, take_profit_pct_min |-> TakeProfitPctMin,
     take_profit_pct_max |-> TakeProfitPctMax, min_rr |-> RrNum]

\* assign_stops_for_long putting the take-profit below the entry price.
assign_stops_for_long_of_tp_below(risk, pos) ==
    LET sl_pct == risk.stop_loss_pct_max * RrDen
        tp_pct == Min(Max(risk.take_profit_pct_min * RrDen, risk.min_rr * risk.stop_loss_pct_max),
                      risk.take_profit_pct_max * RrDen)
    IN [pos EXCEPT !.sl_price = pos.entry_price * (StopScale - sl_pct),
                   !.tp_price = pos.entry_price * (StopScale - tp_pct)]

\* assign_stops_for_long without `tp_pct = min(tp_pct, take_profit_pct_max)`.
assign_stops_for_long_of_uncapped(risk, pos) ==
    LET sl_pct == risk.stop_loss_pct_max * RrDen
        tp_pct == Max(risk.take_profit_pct_min * RrDen, risk.min_rr * risk.stop_loss_pct_max)
    IN [pos EXCEPT !.sl_price = pos.entry_price * (StopScale - sl_pct),
                   !.tp_price = pos.entry_price * (StopScale + tp_pct)]

\* assign_stops_for_long of a RiskManager whose self.risk is risk; sl_pct and
\* tp_pct in 1/StopScale, the two prices in 1/StopScale of pos.entry_price's
\* unit.
assign_stops_for_long_of(risk, pos) ==
    LET sl_pct == risk.stop_loss_pct_max * RrDen
        tp_pct == Min(Max(risk.take_profit_pct_min * RrDen, risk.min_rr * risk.stop_loss_pct_max),
                      risk.take_profit_pct_max * RrDen)
    IN [pos EXCEPT !.sl_price = pos.entry_price * (StopScale - sl_pct),
                   !.tp_price = pos.entry_price * (StopScale + tp_pct)]

assign_stops_for_long(pos) == assign_stops_for_long_of(RiskLimits, pos)

\* last_price is a quote in roubles.
\* check_exit_rules_for_long testing the take-profit before the stop-loss.
check_exit_rules_for_long_take_first(pos, last_price) ==
    IF last_price = None \/ last_price <= 0 \/ pos.qty_shares <= 0 THEN "NONE"
    ELSE IF Truthy(pos.tp_price) /\ last_price * Scale * StopScale >= pos.tp_price THEN "TAKE"
    ELSE IF Truthy(pos.sl_price) /\ last_price * Scale * StopScale <= pos.sl_price THEN "STOP"
    ELSE "NONE"

check_exit_rules_for_long(pos, last_price) ==
    IF last_price = None \/ last_price <= 0 \/ pos.qty_shares <= 0 THEN "NONE"
    ELSE IF Truthy(pos.sl_price) /\ last_price * Scale * StopScale <= pos.sl_price THEN "STOP"
    ELSE IF Truthy(pos.tp_price) /\ last_price * Scale * StopScale >= pos.tp_price THEN "TAKE"
    ELSE "NONE"

\* update_day_stats_on_close adding every PnL, gains included, to the loss.
update_day_stats_on_close_all_loss(stats, entry_price, exit_price, qty_shares, commission_rub) ==
    LET pnl == (exit_price - entry_price) * qty_shares - commission_rub
    IN [trades_count |-> stats.trades_count + 1,
        realized_pnl_rub |-> stats.realized_pnl_rub + pnl,
        realized_loss_rub |-> stats.realized_loss_rub + Abs(pnl)]

update_day_stats_on_close(stats, entry_price, exit_price, qty_shares, commission_rub) ==
    LET pnl == (exit_price - entry_price) * qty_shares - commission_rub
    IN [trades_count |-> stats.trades_count + 1,
        realized_pnl_rub |-> stats.realized_pnl_rub + pnl,
        realized_loss_rub |-> IF pnl < 0 THEN stats.realized_loss_rub + Abs(pnl)
                              ELSE stats.realized_loss_rub]

(***************************************************************************)
(* Inputs: signals, bars and quotes                                        *)
(***************************************************************************)
SignalTypes == {"BUY", "SELL", "CLOSE_LONG"}

\* Candles the signals are attached to.  With the configuration above their
\* approximated quotes are: bid 9 / ask 11 (an affordable entry, a losing
\* exit), bid 14 / ask 28 (a profitable exit of the whole holding), bid 17 /
\* ask 29 (an exit the position cap cuts down), bid 40 / ask 42 (nothing is
\* affordable), and a bar whose OHLC values are missing.
Bars == {[low |-> 8, high |-> 12, close |-> 10],
         [low |-> 7, high |-> 35, close |-> 21],
         [low |-> 11, high |-> 35, close |-> 23],
         [low |-> 39, high |-> 43, close |-> 41],
         [low |-> None, high |-> None, close |-> None]}

\* BacktestRunner._best_bid_ask_from_bar: bid/ask a quarter of the range
\* away from the close, clamped into [low, high].
best_bid_ask_from_bar(row) ==
    IF row.close = None \/ row.high = None \/ row.low = None
    THEN [bid |-> None, ask |-> None]
    ELSE LET rng == row.high - row.low
             q == rng \div 4
         IN [bid |-> Max(row.low, Min(row.close - q, row.close)),
             ask |-> Min(row.high, Max(row.close + q, row.close))]

\* The L1 snapshot the live engine sees for the same bar: BID/OFFER as the
\* backtest approximates them, LAST present or absent.
MarketData(bar, withLast) ==
    [BID |-> best_bid_ask_from_bar(bar).bid,
     OFFER |-> best_bid_ask_from_bar(bar).ask,
     LAST |-> IF withLast THEN bar.close ELSE None]

\* Outcome of AsyncMoexClient.get_security_info as the engine sees it.
SecInfoResults == {"ok", "error"}

(***************************************************************************)
(* TradingEngine._process_signal                                           *)
(*   E = [current_position, day_stats, trade_history, trades_executed,     *)
(*        total_pnl]; the result adds log (the message logged on the way   *)
(*        out) and raised (an exception left the coroutine).               *)
(***************************************************************************)
EngineOut(E, msg, exc) ==
    [current_position |-> E.current_position, day_stats |-> E.day_stats,
     trade_history |-> E.trade_history, trades_executed |-> E.trades_executed,
     total_pnl |-> E.total_pnl, log |-> msg, raised |-> exc]

\* process_signal_pre without the "position already open" test of a BUY.
process_signal_pre_noopencheck(E, signal, market_data) ==
    LET best_bid == market_data.BID
        best_ask == market_data.OFFER
        last_price == IF Truthy(market_data.LAST) THEN market_data.LAST ELSE market_data.OFFER
    IN IF ~allow_new_trade(E.day_stats) THEN "Trade rejected: daily limits exceeded"
       ELSE IF signal.type = "BUY"
       THEN IF ~Truthy(best_ask) \/ ~Truthy(last_price)
            THEN "Insufficient market data for BUY execution"
            ELSE "await"
       ELSE IF signal.type \in {"SELL", "CLOSE_LONG"}
       THEN IF E.current_position = NoPosition
            THEN "Ignoring sell signal: no open position"
            ELSE IF ~Truthy(best_bid)
            THEN "Insufficient market data for SELL execution"
            ELSE "await"
       ELSE ""

\* The part of _process_signal before `await get_security_info`: the message
\* it logs when it returns early, or "await" when it reaches the await.
process_signal_pre(E, signal, market_data) ==
    LET best_bid == market_data.BID
        best_ask == market_data.OFFER
        last_price == IF Truthy(market_data.LAST) THEN market_data.LAST ELSE market_data.OFFER
    IN IF ~allow_new_trade(E.day_stats) THEN "Trade rejected: daily limits exceeded"
       ELSE IF signal.type = "BUY"
       THEN IF E.current_position # NoPosition
            THEN "Ignoring BUY signal: position already open"
            ELSE IF ~Truthy(best_ask) \/ ~Truthy(last_price)
            THEN "Insufficient market data for BUY execution"
            ELSE "await"
       ELSE IF signal.type \in {"SELL", "CLOSE_LONG"}
       THEN IF E.current_position = NoPosition
            THEN "Ignoring sell signal: no open position"
            ELSE IF ~Truthy(best_bid)
            THEN "Insufficient market data for SELL execution"
            ELSE "await"
       ELSE ""

\* The part after the await of a BUY that sets the position and leaves the
\* TradeRecord out.
process_signal_buy_norecord(E, signal, market_data, sec) ==
    LET executed_trade == execute([side |-> "BUY", best_bid |-> market_data.BID,
                                   best_ask |-> market_data.OFFER,
                                   lot_size |-> LotSize, max_position_rub |-> MaxPositionRub,
                                   desired_position_shares |-> None])
        position == assign_stops_for_long(
                        [entry_price |-> executed_trade.exec_price,
                         qty_shares |-> executed_trade.qty_shares,
                         sl_price |-> None, tp_price |-> None])
    IN IF sec = "error" THEN EngineOut(E, "", TRUE)
       ELSE IF executed_trade = NoTrade THEN EngineOut(E, "BUY execution failed", FALSE)
       ELSE [current_position |-> position, day_stats |-> E.day_stats,
             trade_history |-> E.trade_history,
             trades_executed |-> E.trades_executed + 1,
             total_pnl |-> E.total_pnl, log |-> "Position opened", raised |-> FALSE]

\* The part after the await of a BUY.
process_signal_buy(E, signal, market_data, sec) ==
    LET executed_trade == execute([side |-> "BUY", best_bid |-> market_data.BID,
                                   best_ask |-> market_data.OFFER,
                                   lot_size |-> LotSize, max_position_rub |-> MaxPositionRub,
                                   desired_position_shares |-> None])
        position == assign_stops_for_long(
                        [entry_price |-> executed_trade.exec_price,
                         qty_shares |-> executed_trade.qty_shares,
                         sl_price |-> None, tp_price |-> None])
        trade_record == [signal |-> signal.type, execution |-> executed_trade,
                         position_after |-> position, pnl_realized |-> << >>]
    IN IF sec = "error" THEN EngineOut(E, "", TRUE)
       ELSE IF executed_trade = NoTrade THEN EngineOut(E, "BUY execution failed", FALSE)
       ELSE [current_position |-> position, day_stats |-> E.day_stats,
             trade_history |-> Append(E.trade_history, trade_record),
             trades_executed |-> E.trades_executed + 1,
             total_pnl |-> E.total_pnl, log |-> "Position opened", raised |-> FALSE]

\* The part after the await of a SELL/CLOSE_LONG; position is the local
\* variable read from the session before the await.
process_signal_sell(E, position, signal, market_data, sec) ==
    LET executed_trade == execute([side |-> "SELL", best_bid |-> market_data.BID,
                                   best_ask |-> market_data.OFFER,
                                   lot_size |-> LotSize, max_position_rub |-> MaxPositionRub,
                                   desired_position_shares |-> position.qty_shares])
        pnl == (executed_trade.exec_price - position.entry_price) * position.qty_shares
                   - executed_trade.commission
        trade_record == [signal |-> signal.type, execution |-> executed_trade,
                         position_after |-> NoPosition, pnl_realized |-> <<pnl>>]
    IN IF sec = "error" THEN EngineOut(E, "", TRUE)
       ELSE IF executed_trade = NoTrade THEN EngineOut(E, "SELL execution failed", FALSE)
       ELSE [current_position |-> NoPosition,
             day_stats |-> update_day_stats_on_close(E.day_stats, position.entry_price,
                               executed_trade.exec_price, position.qty_shares,
                               executed_trade.commission),
             trade_history |-> Append(E.trade_history, trade_record),
             trades_executed |-> E.trades_executed + 1,
             total_pnl |-> E.total_pnl + pnl, log |-> "Position closed", raised |-> FALSE]

process_signal_post(E, position, signal, market_data, sec) ==
    IF signal.type = "BUY" THEN process_signal_buy(E, signal, market_data, sec)
    ELSE process_signal_sell(E, position, signal, market_data, sec)

\* One whole call of _process_signal with nothing else running in between.
process_signal(E, signal, market_data, sec) ==
    IF process_signal_pre(E, signal, market_data) = "await"
    THEN process_signal_post(E, E.current_position, signal, market_data, sec)
    ELSE EngineOut(E, process_signal_pre(E, signal, market_data), FALSE)

(***************************************************************************)
(* BacktestRunner.run: the body of `for sig in signals`                    *)
(*   B = [open_pos, entry_trade_meta, day_stats, trades_rows, fills]       *)
(*   fills lists, in order, the side of every fill the loop accepted       *)
(*   (exec_in / exec_out).                                                 *)
(***************************************************************************)
backtest_buy(B, sig, quote) ==
    LET exec_in == execute([side |-> "BUY", best_bid |-> quote.bid, best_ask |-> quote.ask,
                            lot_size |-> LotSize, max_position_rub |-> MaxPositionRub,
                            desired_position_shares |-> None])
        open_pos == assign_stops_for_long(
                        [entry_price |-> exec_in.exec_price, qty_shares |-> exec_in.qty_shares,
                         sl_price |-> None, tp_price |-> None])
    IN IF B.open_pos # NoPosition THEN B
       ELSE IF ~allow_new_trade(B.day_stats) THEN B
       ELSE IF exec_in = NoTrade \/ exec_in.qty_shares <= 0 THEN B
       ELSE [B EXCEPT !.open_pos = open_pos,
                      !.entry_trade_meta = exec_in,
                      !.day_stats.trades_count = @ + 1,
                      !.fills = Append(@, "BUY")]

backtest_sell(B, sig, quote) ==
    LET open_pos == B.open_pos
        exec_out == execute([side |-> "SELL", best_bid |-> quote.bid, best_ask |-> quote.ask,
                             lot_size |-> LotSize, max_position_rub |-> MaxPositionRub,
                             desired_position_shares |-> open_pos.qty_shares])
        commission_total == B.entry_trade_meta.commission + exec_out.commission
        pnl_rub == (exec_out.exec_price - open_pos.entry_price) * open_pos.qty_shares
                       - commission_total
        row == [entry_price |-> open_pos.entry_price, exit_price |-> exec_out.exec_price,
                qty_shares |-> open_pos.qty_shares, commission_rub |-> commission_total,
                pnl_rub |-> pnl_rub]
    IN IF B.open_pos = NoPosition \/ B.entry_trade_meta = NoTrade THEN B
       ELSE IF exec_out = NoTrade \/ exec_out.qty_shares <= 0 THEN B
       ELSE [open_pos |-> NoPosition, entry_trade_meta |-> NoTrade,
             day_stats |-> update_day_stats_on_close(B.day_stats, open_pos.entry_price,
                               exec_out.exec_price, open_pos.qty_shares, commission_total),
             trades_rows |-> Append(B.trades_rows, row),
             fills |-> Append(B.fills, "SELL")]

backtest_step(B, sig, bar) ==
    LET quote == best_bid_ask_from_bar(bar)
    IN IF sig.type = "BUY" THEN backtest_buy(B, sig, quote)
       ELSE IF sig.type \in {"SELL", "CLOSE_LONG"} THEN backtest_sell(B, sig, quote)
       ELSE B

(***************************************************************************)
(* State                                                                   *)
(***************************************************************************)
VARIABLES
    \* TradingEngine.session / trade_history / stats
    current_position, day_stats, trade_history, total_pnl, stats, last_log,
    \* locals of BacktestRunner.run
    bt,
    \* the signal being fed to both drivers, and who has consumed it
    feed, live_done, bt_done,
    \* TradingEngine lifecycle: state, shutdown_event, the client handle and
    \* each created client's session, the two task handles, every task ever
    \* created, AlertManager.alert_history (its length), whether
    \* _finalize_session has run, and the calls of start() and stop()
    state, shutdown_event, moex_client, client_session, main_loop_task, health_check_task,
    tasks, alert_history, finalized, start_calls, stop_calls,
    \* one AsyncMoexClient: circuit_breaker, metrics, whether _session is set,
    \* _last_request_ts, the holder of _rate_limit_lock, the clock, the calls of
    \* _request_json, and (history, for the claims) the failures recorded since
    \* the last recorded success
    circuit_breaker, metrics, session, last_request_ts, rate_limit_lock, clock, requests,
    consecutive_failures,
    \* (history, for the claims) the time at which the latest session.get started
    last_attempt_ts,
    \* TradingEngine.data_cache: whether it holds at least 30 candles
    candles_enough,
    \* one call of a function of ExecutionSimulator, RiskManager or the
    \* strategy: its name, its arguments, and its result once it has returned
    pure_call,
    \* the database: the user's Portfolio row, its GAZP Position row, and the
    \* Transaction rows
    portfolio, position, transactions

tradeVars == <<current_position, day_stats, trade_history, total_pnl, stats, last_log>>
btVars == <<bt>>
feedVars == <<feed, live_done, bt_done>>
lifeVars == <<state, shutdown_event, moex_client, client_session, main_loop_task,
              health_check_task, tasks, alert_history, finalized, start_calls, stop_calls>>
clientVars == <<circuit_breaker, metrics, session, last_request_ts, rate_limit_lock, clock,
                requests, consecutive_failures, last_attempt_ts>>
cacheVars == <<candles_enough>>
dbVars == <<portfolio, position, transactions>>
callVars == <<pure_call, dbVars>>
vars == <<tradeVars, btVars, feedVars, lifeVars, clientVars, cacheVars, callVars>>

\* new_day: the signal's bar is on a later trading day than the bar of the
\* signal before it.
NoFeed == [signal |-> [type |-> "NONE"], bar |-> [low |-> None, high |-> None, close |-> None],
           new_day |-> FALSE]

EngineView ==
    [current_position |-> current_position, day_stats |-> day_stats,
     trade_history |-> trade_history, trades_executed |-> stats.trades_executed,
     total_pnl |-> total_pnl]

InitTrade ==
    /\ current_position = NoPosition
    /\ day_stats = NewDayStats
    /\ trade_history = << >>
    /\ total_pnl = 0
    /\ stats = [iterations |-> 0, signals_processed |-> 0, trades_executed |-> 0, errors |-> 0]
    /\ last_log = ""

InitBacktest ==
    bt = [open_pos |-> NoPosition, entry_trade_meta |-> NoTrade, day_stats |-> NewDayStats,
          trades_rows |-> << >>, fills |-> << >>]

InitFeed ==
    /\ feed = NoFeed
    /\ live_done = TRUE
    /\ bt_done = TRUE

\* Bounds of the lifecycle model: calls of start(), calls of stop(), loop
\* iterations counted in stats, signals generated per iteration.
MaxStarts == 1
MaxStops == 2
MaxIterations == 1
MaxSignals == 1

StartIds == 1..MaxStarts
StopIds == 1..MaxStops
\* start() call c creates client c, main-loop task 2c-1 and health task 2c.
TaskIds == 1..(2 * MaxStarts)
MainTaskOf(c) == 2 * c - 1
HealthTaskOf(c) == 2 * c
IsMainTask(t) == t % 2 = 1
NoMarketData == [BID |-> None, OFFER |-> None, LAST |-> None]
NoSignal == [type |-> "NONE"]

\* A task: st is unborn / active / cancelled / failed / finished; pc is where
\* it is suspended (loop = at the top of its loop: created and not yet run, or
\* in the sleep that ends a pass; fetch and secinfo = in that request); cancel
\* is the pending Task.cancel(); the rest are the locals of the suspended
\* coroutine.
NewTask == [st |-> "unborn", pc |-> "loop", cancel |-> FALSE, market_data |-> NoMarketData,
            signals |-> << >>, signal |-> NoSignal, position |-> NoPosition, exit_check |-> FALSE]
IdleCall == [pc |-> "idle", healthy |-> TRUE]
IdleStop == [pc |-> "idle", entry_state |-> "", tasks_to_cancel |-> << >>, idx |-> 0, client |-> 0]
\* A call of stop() that is over: its locals are gone, entry_state remembers
\* the state it was called in and tasks_to_cancel the tasks it had to join.
EndedStop(call, how) ==
    [IdleStop EXCEPT !.pc = how, !.entry_state = call.entry_state,
                     !.tasks_to_cancel = call.tasks_to_cancel]

InitLife ==
    /\ state = "initializing"
    /\ shutdown_event = FALSE
    /\ moex_client = 0
    /\ client_session = [c \in StartIds |-> FALSE]
    /\ main_loop_task = 0
    /\ health_check_task = 0
    /\ tasks = [t \in TaskIds |-> NewTask]
    /\ alert_history = 0
    /\ finalized = FALSE
    /\ start_calls = [c \in StartIds |-> IdleCall]
    /\ stop_calls = [c \in StopIds |-> IdleStop]

\* Bounds of the client model.  retries and circuit_breaker_threshold are
\* the constructor's parameters (defaults 3 and 5).  Time is counted in ticks
\* of one clock (it stands for now_msk() and for the event loop's time()); a
\* tick is 0.5 s, the base of the retry delay; circuit_breaker_timeout and
\* rate_limit_interval are in ticks.
retries == 1
circuit_breaker_threshold == 3
circuit_breaker_timeout == 2
rate_limit_interval == 1
MaxClock == 4
MaxRequests == 3

RequestIds == 1..MaxRequests
\* A call of _request_json: trial remembers (for the claims) that its breaker
\* check made the transition open -> half_open.
IdleRequest == [pc |-> "idle", attempt |-> 0, wake |-> 0, error |-> "", trial |-> FALSE]

InitClient ==
    /\ circuit_breaker = [failures |-> 0, last_failure_time |-> None, state |-> "closed"]
    /\ metrics = [requests_total |-> 0, errors_total |-> 0]
    /\ session = FALSE
    /\ last_request_ts = None
    /\ rate_limit_lock = 0
    /\ clock = 0
    /\ requests = [r \in RequestIds |-> IdleRequest]
    /\ consecutive_failures = 0
    /\ last_attempt_ts = None

\* DataCache(interval_minutes=...) as __init__ constructs it holds no candle.
InitCache == candles_enough = FALSE

NoCall == [fn |-> "", done |-> FALSE]

NoRow == [exists |-> FALSE]

\* A database without the user.
InitDb == portfolio = NoRow /\ position = NoRow /\ transactions = << >>

Init == InitTrade /\ InitBacktest /\ InitFeed /\ InitLife /\ InitClient /\ InitCache /\ InitDb
            /\ pure_call = NoCall

(***************************************************************************)
(* Feeding one chronological signal sequence to both drivers               *)
(***************************************************************************)
\* The strategy emits the next signal of the sequence, with its bar.
NextSignal(type, bar, new_day) ==
    /\ live_done /\ bt_done
    /\ feed' = [signal |-> [type |-> type], bar |-> bar, new_day |-> new_day]
    /\ live_done' = FALSE
    /\ bt_done' = FALSE
    /\ UNCHANGED <<clientVars, tradeVars, btVars, callVars, cacheVars, lifeVars>>

\* TradingEngine._process_signal(signal, market_data), run to completion, on
\* the L1 snapshot of the signal's bar.
LiveProcessSignal(sec, withLast) ==
    /\ ~live_done
    /\ LET out == process_signal(EngineView, feed.signal, MarketData(feed.bar, withLast), sec)
       IN /\ current_position' = out.current_position
          /\ day_stats' = out.day_stats
          /\ trade_history' = out.trade_history
          /\ total_pnl' = out.total_pnl
          /\ stats' = [stats EXCEPT !.trades_executed = out.trades_executed]
          /\ last_log' = IF out.raised THEN "AsyncMoexClientError" ELSE out.log
    /\ live_done' = TRUE
    /\ UNCHANGED <<clientVars, btVars, callVars, cacheVars, feed, bt_done, lifeVars>>

\* One pass of `for sig in signals` in BacktestRunner.run, on the signal the
\* live engine has just been given.
BacktestProcessSignal ==
    /\ live_done /\ ~bt_done
    /\ bt' = backtest_step(bt, feed.signal, feed.bar)
    /\ bt_done' = TRUE
    /\ UNCHANGED <<clientVars, tradeVars, feed, live_done, lifeVars, cacheVars, callVars>>

NextTrade ==
    \/ \E type \in SignalTypes, bar \in Bars, new_day \in BOOLEAN : NextSignal(type, bar, new_day)
    \/ \E sec \in SecInfoResults, withLast \in BOOLEAN : LiveProcessSignal(sec, withLast)
    \/ BacktestProcessSignal

SpecTrade == Init /\ [][NextTrade]_vars

(***************************************************************************)
(* Claims about signal processing (checked under SpecTrade)                *)
(***************************************************************************)
LiveStep == ~live_done /\ live_done'
BacktestStep == ~bt_done /\ bt_done'

Alternates(sides) ==
    \A i \in 1..Len(sides) : sides[i] = IF i % 2 = 1 THEN "BUY" ELSE "SELL"

HistorySides == [i \in 1..Len(trade_history) |-> trade_history[i].execution.side]

OnePositionAlternatingFills ==
    /\ Alternates(HistorySides)
    /\ (current_position # NoPosition) <=> (Len(trade_history) % 2 = 1)
    /\ Alternates(bt.fills)
    /\ (bt.open_pos # NoPosition) <=> (Len(bt.fills) % 2 = 1)

LiveIgnoresAndFills ==
    /\ LiveStep /\ feed.signal.type = "BUY" /\ current_position # NoPosition
           => UNCHANGED <<current_position, day_stats, trade_history, total_pnl, stats>>
    /\ LiveStep /\ feed.signal.type # "BUY" /\ current_position = NoPosition
           => UNCHANGED <<current_position, day_stats, trade_history, total_pnl, stats>>
    /\ current_position = NoPosition /\ current_position' # NoPosition
           => /\ LiveStep /\ feed.signal.type = "BUY"
              /\ Len(trade_history') = Len(trade_history) + 1
              /\ trade_history'[Len(trade_history')].execution.side = "BUY"
              /\ trade_history'[Len(trade_history')].execution.qty_shares
                     = current_position'.qty_shares
    /\ current_position # NoPosition /\ current_position' = NoPosition
           => /\ LiveStep /\ feed.signal.type \in {"SELL", "CLOSE_LONG"}
              /\ Len(trade_history') = Len(trade_history) + 1
              /\ trade_history'[Len(trade_history')].execution.side = "SELL"
    /\ current_position # NoPosition /\ current_position' # NoPosition
           => current_position' = current_position

BacktestIgnoresAndFills ==
    /\ BacktestStep /\ feed.signal.type = "BUY" /\ bt.open_pos # NoPosition => bt' = bt
    /\ BacktestStep /\ feed.signal.type # "BUY" /\ bt.open_pos = NoPosition => bt' = bt
    /\ bt.open_pos = NoPosition /\ bt'.open_pos # NoPosition
           => BacktestStep /\ feed.signal.type = "BUY" /\ bt'.fills = Append(bt.fills, "BUY")
    /\ bt.open_pos # NoPosition /\ bt'.open_pos = NoPosition
           => /\ BacktestStep /\ feed.signal.type \in {"SELL", "CLOSE_LONG"}
              /\ bt'.fills = Append(bt.fills, "SELL")
    /\ bt.open_pos # NoPosition /\ bt'.open_pos # NoPosition => bt'.open_pos = bt.open_pos

\* C1: in the live engine and in the backtest at most one long position is
\* open; a BUY on an open position and a SELL/CLOSE_LONG without a position
\* change nothing; a position appears only with a filled BUY and disappears
\* only with a filled SELL, so the recorded fills alternate BUY, SELL, BUY, ...
C1_OnePositionAlternatingFills ==
    /\ []OnePositionAlternatingFills
    /\ [][LiveIgnoresAndFills /\ BacktestIgnoresAndFills]_vars

\* C1 witness: both drivers have traded BUY, SELL (the engine a third time)
\* and the engine has just ignored a BUY on its open position.
C1_Witness ==
    /\ Len(trade_history) >= 3
    /\ Len(bt.fills) >= 2
    /\ live_done /\ feed.signal.type = "BUY"
    /\ last_log = "Ignoring BUY signal: position already open"

GateClosed(s) ==
    \/ s.trades_count >= MaxTradesPerDay
    \/ s.realized_loss_rub >= DailyLossLimitRub * Scale

\* C2: while trades_count >= max_trades_per_day or realized_loss >=
\* daily_loss_limit no position is opened; a BUY arriving then is rejected
\* without an exception and leaves position, day stats and trade log as they
\* were, in the live engine and in the backtest.
C2_NoEntryPastDailyLimits ==
    [][ /\ (LiveStep /\ feed.signal.type = "BUY" /\ GateClosed(day_stats))
            => /\ UNCHANGED <<current_position, day_stats, trade_history, total_pnl, stats>>
               /\ last_log' = "Trade rejected: daily limits exceeded"
        /\ (current_position = NoPosition /\ current_position' # NoPosition)
            => ~GateClosed(day_stats)
        /\ (BacktestStep /\ feed.signal.type = "BUY" /\ GateClosed(bt.day_stats))
            => bt' = bt
        /\ (bt.open_pos = NoPosition /\ bt'.open_pos # NoPosition)
            => ~GateClosed(bt.day_stats) ]_vars

\* C2 witness: the loss limit alone (trade count still below its limit) has
\* closed the gate in both drivers and both have been given a BUY on a flat
\* book with a usable quote; the engine logged the rejection.
C2_Witness ==
    /\ day_stats.trades_count < MaxTradesPerDay
    /\ day_stats.realized_loss_rub >= DailyLossLimitRub * Scale
    /\ GateClosed(bt.day_stats)
    /\ feed.signal.type = "BUY" /\ feed.bar.close = 10
    /\ live_done /\ bt_done
    /\ current_position = NoPosition /\ bt.open_pos = NoPosition
    /\ last_log = "Trade rejected: daily limits exceeded"

(***************************************************************************)
(* TradingEngine lifecycle.  One action is what a coroutine does between   *)
(* two suspensions of the event loop.                                      *)
(***************************************************************************)
\* AlertManager.send_alert as the engine calls it (force is never passed):
\* _should_deduplicate evaluates `timedelta`, a name alerts.py never imports,
\* so the call raises NameError before an Alert is built or recorded.
send_alert(history) == [raised |-> TRUE, alert_history |-> history]

TaskDone(T, t) == T[t].st \in {"cancelled", "failed", "finished"}

\* stop() returning at once only while another stop() is in progress.
stop_returns_early_only_stopping(st) == st = "stopping"

\* stop() returns at once in these states.
stop_returns_early(st) == st \in {"stopping", "stopped"}

\* _check_initial_health that lets an unhealthy component pass.
check_initial_health_passes(healthy, history) == [raised |-> FALSE, alert_history |-> history]

\* _check_initial_health: healthy is whether check_all() found every
\* component healthy.  Otherwise it raises: RuntimeError by its own raise, or
\* before that whatever send_alert raised.
check_initial_health(healthy, history) ==
    IF healthy THEN [raised |-> FALSE, alert_history |-> history]
    ELSE [raised |-> TRUE, alert_history |-> send_alert(history).alert_history]

\* start(), up to the first suspension.  When _check_initial_health raises,
\* start() goes to _emergency_shutdown, which suspends in moex_client.close().
Start(c, healthy) ==
    /\ start_calls[c].pc = "idle"
    /\ \A d \in StartIds : d < c => start_calls[d].pc # "idle"
    /\ moex_client' = c
    /\ client_session' = [client_session EXCEPT ![c] = TRUE]
    /\ alert_history' = check_initial_health(healthy, alert_history).alert_history
    /\ IF ~check_initial_health(healthy, alert_history).raised
       THEN /\ state' = "running"
            /\ tasks' = [tasks EXCEPT ![MainTaskOf(c)].st = "active",
                                      ![HealthTaskOf(c)].st = "active"]
            /\ main_loop_task' = MainTaskOf(c)
            /\ health_check_task' = HealthTaskOf(c)
            /\ start_calls' = [start_calls EXCEPT ![c] = [pc |-> "returned", healthy |-> healthy]]
       ELSE /\ state' = "stopping"
            /\ start_calls' = [start_calls EXCEPT ![c] = [pc |-> "emergency", healthy |-> healthy]]
            /\ UNCHANGED <<tasks, main_loop_task, health_check_task>>
    /\ UNCHANGED <<clientVars, tradeVars, btVars, callVars, cacheVars, feedVars, shutdown_event, finalized, stop_calls>>

\* start() with healthy components whose loop.add_signal_handler raises
\* (NotImplementedError on an event loop without signal support,
\* RuntimeError off the main thread): the two tasks have been created when
\* the except clause goes to _emergency_shutdown.
StartHandlerFails(c) ==
    /\ start_calls[c].pc = "idle"
    /\ \A d \in StartIds : d < c => start_calls[d].pc # "idle"
    /\ moex_client' = c
    /\ client_session' = [client_session EXCEPT ![c] = TRUE]
    /\ alert_history' = check_initial_health(TRUE, alert_history).alert_history
    /\ state' = "stopping"
    /\ tasks' = [tasks EXCEPT ![MainTaskOf(c)].st = "active",
                              ![HealthTaskOf(c)].st = "active"]
    /\ main_loop_task' = MainTaskOf(c)
    /\ health_check_task' = HealthTaskOf(c)
    /\ start_calls' = [start_calls EXCEPT ![c] = [pc |-> "emergency", healthy |-> TRUE]]
    /\ UNCHANGED <<clientVars, tradeVars, btVars, callVars, cacheVars, feedVars, shutdown_event, finalized, stop_calls>>

\* _emergency_shutdown after moex_client.close() has completed; start() then
\* re-raises.
StartEmergencyDone(c) ==
    /\ start_calls[c].pc = "emergency"
    /\ client_session' = [client_session EXCEPT ![c] = FALSE]
    /\ state' = "stopped"
    /\ start_calls' = [start_calls EXCEPT ![c].pc = "raised"]
    /\ UNCHANGED <<clientVars, tradeVars, btVars, callVars, cacheVars, feedVars, shutdown_event, moex_client, main_loop_task,
                   health_check_task, tasks, alert_history, finalized, stop_calls>>

\* `for task in tasks_to_cancel: task.cancel(); await task` from position i,
\* up to the next suspension: join (awaiting a task that is not done), raised
\* (the awaited task ended with an exception other than CancelledError, which
\* `await task` re-raises), or close (the loop is over).
RECURSIVE StopRun(_, _, _)
StopRun(T, lst, i) ==
    IF i > Len(lst) THEN [tasks |-> T, pc |-> "close", idx |-> i]
    ELSE IF T[lst[i]].st = "active"
    THEN [tasks |-> [T EXCEPT ![lst[i]].cancel = TRUE], pc |-> "join", idx |-> i]
    ELSE IF T[lst[i]].st = "failed" THEN [tasks |-> T, pc |-> "raised", idx |-> i]
    ELSE StopRun(T, lst, i + 1)

\* The rest of stop() after the task loop stopped at r: with no client there
\* is nothing to await and stop() runs to its end.
StopContinue(c, r, call) ==
    /\ tasks' = r.tasks
    /\ IF r.pc = "close" /\ moex_client = 0
       THEN /\ state' = "stopped"
            /\ finalized' = TRUE
            /\ stop_calls' = [stop_calls EXCEPT ![c] = EndedStop(call, "returned")]
       ELSE /\ state' = "stopping"
            /\ finalized' = finalized
            /\ stop_calls' = [stop_calls EXCEPT ![c] =
                                 IF r.pc = "raised" THEN EndedStop(call, "raised")
                                 ELSE [call EXCEPT !.pc = r.pc, !.idx = r.idx,
                                                   !.client = IF r.pc = "close" THEN moex_client
                                                              ELSE 0]]

\* stop(), up to its first suspension.
StopBegin(c) ==
    /\ stop_calls[c].pc = "idle"
    /\ \A d \in StopIds : d < c => stop_calls[d].pc # "idle"
    /\ IF stop_returns_early(state)
       THEN /\ stop_calls' = [stop_calls EXCEPT ![c] = [IdleStop EXCEPT !.pc = "returned",
                                                                       !.entry_state = state]]
            /\ UNCHANGED <<state, shutdown_event, tasks, finalized>>
       ELSE LET tasks_to_cancel ==
                    (IF main_loop_task # 0 THEN <<main_loop_task>> ELSE << >>)
                        \o (IF health_check_task # 0 THEN <<health_check_task>> ELSE << >>)
                call == [IdleStop EXCEPT !.entry_state = state,
                                         !.tasks_to_cancel = tasks_to_cancel]
            IN /\ shutdown_event' = TRUE
               /\ StopContinue(c, StopRun(tasks, tasks_to_cancel, 1), call)
    /\ UNCHANGED <<clientVars, tradeVars, btVars, callVars, cacheVars, feedVars, moex_client, client_session, main_loop_task,
                   health_check_task, alert_history, start_calls>>

\* stop() resumed from `await task` once the awaited task is done.
StopJoin(c) ==
    /\ stop_calls[c].pc = "join"
    /\ LET call == stop_calls[c]
           t == call.tasks_to_cancel[call.idx]
       IN /\ TaskDone(tasks, t)
          /\ StopContinue(c, StopRun(tasks, call.tasks_to_cancel, call.idx), call)
    /\ UNCHANGED <<clientVars, tradeVars, btVars, callVars, cacheVars, feedVars, shutdown_event, moex_client, client_session,
                   main_loop_task, health_check_task, alert_history, start_calls>>

\* stop() resumed from `await self.moex_client.close()`: _finalize_session
\* (its closing alert raises inside its own try/except) and state = STOPPED.
StopClose(c) ==
    /\ stop_calls[c].pc = "close"
    /\ client_session' = [client_session EXCEPT ![stop_calls[c].client] = FALSE]
    /\ alert_history' = send_alert(alert_history).alert_history
    /\ finalized' = TRUE
    /\ state' = "stopped"
    /\ stop_calls' = [stop_calls EXCEPT ![c] = EndedStop(stop_calls[c], "returned")]
    /\ UNCHANGED <<clientVars, tradeVars, btVars, callVars, cacheVars, feedVars, shutdown_event, moex_client, main_loop_task,
                   health_check_task, tasks, start_calls>>

\* A task resumed with a cancellation pending ends cancelled.
TaskCancelled(t) ==
    /\ tasks[t].st = "active"
    /\ tasks[t].cancel
    /\ tasks' = [tasks EXCEPT ![t] = [NewTask EXCEPT !.st = "cancelled"]]
    /\ UNCHANGED <<clientVars, tradeVars, btVars, callVars, cacheVars, feedVars, state, shutdown_event, moex_client,
                   client_session, main_loop_task, health_check_task, alert_history,
                   finalized, start_calls, stop_calls>>

\* _health_check_loop from its start or from its sleep to its next sleep; the
\* alert for an unhealthy component raises inside the loop's own try/except.
HealthRun(t, healthy) ==
    /\ ~IsMainTask(t)
    /\ tasks[t].st = "active" /\ ~tasks[t].cancel
    /\ IF shutdown_event
       THEN tasks' = [tasks EXCEPT ![t] = [NewTask EXCEPT !.st = "finished"]]
       ELSE tasks' = tasks
    /\ alert_history' = IF shutdown_event \/ healthy THEN alert_history
                        ELSE send_alert(alert_history).alert_history
    /\ UNCHANGED <<clientVars, tradeVars, btVars, callVars, cacheVars, feedVars, state, shutdown_event, moex_client,
                   client_session, main_loop_task, health_check_task, finalized,
                   start_calls, stop_calls>>

(***************************************************************************)
(* _main_trading_loop and _trading_iteration                               *)
(***************************************************************************)
\* DataCache (gazprom_bot.data.cache) : whether get_candles_df() returns at
\* least 30 candles.
CandlesEnough == BOOLEAN

\* finalize_candle() then get_candles_df(): the cache appends candles and
\* drops none, so once it has held 30 candles it holds 30 at every later read.
get_candles_df(held_enough) == IF held_enough THEN {TRUE} ELSE CandlesEnough

\* What generate_signals returns in one iteration.
SignalSeqs == UNION {[1..n -> {[type |-> ty] : ty \in SignalTypes}] : n \in 0..MaxSignals}

\* The L1 snapshots get_marketdata_l1 can return (it raises
\* AsyncMoexClientError otherwise).
Snapshots == {MarketData(bar, wl) : bar \in Bars, wl \in BOOLEAN}

ExitSignal == [type |-> "CLOSE_LONG"]

\* Index of the first signal of sigs whose _process_signal reaches its await
\* (0 if none does); the signals before it return early and change nothing.
FirstAwait(E, sigs, md) ==
    LET I == {i \in 1..Len(sigs) : process_signal_pre(E, sigs[i], md) = "await"}
    IN IF I = {} THEN 0 ELSE CHOOSE i \in I : \A j \in I : i <= j

\* _check_position_exits closing on a stop-loss only.
NeedsExit_stop_only(E, md) ==
    /\ E.current_position # NoPosition
    /\ Truthy(md.LAST)
    /\ check_exit_rules_for_long(E.current_position, md.LAST) = "STOP"

\* _check_position_exits decides to close.
NeedsExit(E, md) ==
    /\ E.current_position # NoPosition
    /\ Truthy(md.LAST)
    /\ check_exit_rules_for_long(E.current_position, md.LAST) # "NONE"

\* The iteration from `for signal in signals` (exit_done = FALSE) or from the
\* return of _check_position_exits (exit_done = TRUE) to its next suspension:
\* the locals of the task suspended in get_security_info, or pc = "sleep"
\* when the iteration returns.
Advance(E, sigs, md, exit_done) ==
    LET i == FirstAwait(E, sigs, md)
    IN IF ~exit_done /\ i > 0
       THEN [pc |-> "secinfo", signal |-> sigs[i], signals |-> SubSeq(sigs, i + 1, Len(sigs)),
             position |-> IF sigs[i].type = "BUY" THEN NoPosition ELSE E.current_position,
             exit_check |-> FALSE]
       ELSE IF ~exit_done /\ NeedsExit(E, md) /\ process_signal_pre(E, ExitSignal, md) = "await"
       THEN [pc |-> "secinfo", signal |-> ExitSignal, signals |-> << >>,
             position |-> E.current_position, exit_check |-> TRUE]
       ELSE [pc |-> "sleep", signal |-> NoSignal, signals |-> << >>,
             position |-> NoPosition, exit_check |-> FALSE]

\* The task record for the suspension a describes.
Suspended(t, a, md) ==
    IF a.pc = "sleep" THEN [NewTask EXCEPT !.st = "active"]
    ELSE [NewTask EXCEPT !.st = "active", !.pc = "secinfo", !.market_data = md,
                         !.signals = a.signals, !.signal = a.signal,
                         !.position = a.position, !.exit_check = a.exit_check]

\* The iteration returned: the loop counts it and sleeps.
IterationReturns(t, a, md, S) ==
    /\ tasks' = [tasks EXCEPT ![t] = Suspended(t, a, md)]
    /\ stats' = IF a.pc = "sleep" THEN [S EXCEPT !.iterations = @ + 1] ELSE S
    /\ alert_history' = alert_history

Sleeping == [pc |-> "sleep"]

\* The iteration raised: `except Exception` counts the error and calls
\* send_alert, whose exception leaves the handler and ends the task.
IterationRaises(t, S) ==
    LET alert == send_alert(alert_history)
    IN /\ stats' = [S EXCEPT !.errors = @ + 1]
       /\ alert_history' = alert.alert_history
       /\ tasks' = IF alert.raised
                   THEN [tasks EXCEPT ![t] = [NewTask EXCEPT !.st = "failed"]]
                   ELSE [tasks EXCEPT ![t] = [NewTask EXCEPT !.st = "active"]]

\* Iterations begun so far: those counted in stats and those in flight.
IterationsBegun ==
    stats.iterations + stats.errors
        + Cardinality({t \in TaskIds : tasks[t].st = "active" /\ tasks[t].pc \in {"fetch", "secinfo"}})

\* The loop from its start or its sleep: the `while` test and the iteration
\* up to get_marketdata_l1.  Outside the session window an open position is
\* reported with send_alert, which raises.
MainRun(t, inSession) ==
    /\ IsMainTask(t)
    /\ tasks[t].st = "active" /\ ~tasks[t].cancel
    /\ tasks[t].pc = "loop"
    /\ IF shutdown_event
       THEN /\ tasks' = [tasks EXCEPT ![t] = [NewTask EXCEPT !.st = "finished"]]
            /\ UNCHANGED <<stats, alert_history>>
       ELSE IF ~inSession
       THEN IF current_position # NoPosition
            THEN IterationRaises(t, stats)
            ELSE IterationReturns(t, Sleeping, NoMarketData, stats)
       ELSE IF ~client_session[moex_client]
       THEN IterationReturns(t, Sleeping, NoMarketData, stats)
       ELSE /\ tasks' = [tasks EXCEPT ![t].pc = "fetch"]
            /\ UNCHANGED <<stats, alert_history>>
    /\ UNCHANGED <<clientVars, current_position, day_stats, trade_history, total_pnl, last_log, btVars, callVars, cacheVars, feedVars,
                   state, shutdown_event, moex_client, client_session, main_loop_task,
                   health_check_task, finalized, start_calls, stop_calls>>

\* The iteration resumed from get_marketdata_l1, up to its next suspension.
MainFetch(t, ok, result, enough, signals) ==
    /\ IsMainTask(t)
    /\ tasks[t].st = "active" /\ ~tasks[t].cancel
    /\ tasks[t].pc = "fetch"
    /\ ok => enough \in get_candles_df(candles_enough)
    /\ candles_enough' = IF ok THEN enough ELSE candles_enough
    /\ IF ~ok \/ ~enough
       THEN IterationReturns(t, Sleeping, NoMarketData, stats)
       ELSE IterationReturns(t, Advance(EngineView, signals, result, FALSE), result,
                             [stats EXCEPT !.signals_processed = @ + Len(signals)])
    /\ UNCHANGED <<clientVars, current_position, day_stats, trade_history, total_pnl, last_log, btVars, callVars, feedVars,
                   state, shutdown_event, moex_client, client_session, main_loop_task,
                   health_check_task, finalized, start_calls, stop_calls>>

\* _process_signal resumed from get_security_info: the fill is applied, then
\* the iteration goes on to its next suspension.
MainSecInfo(t, sec) ==
    /\ IsMainTask(t)
    /\ tasks[t].st = "active" /\ ~tasks[t].cancel
    /\ tasks[t].pc = "secinfo"
    /\ LET me == tasks[t]
           out == process_signal_post(EngineView, me.position, me.signal, me.market_data, sec)
           S == [stats EXCEPT !.trades_executed = out.trades_executed]
       IN IF out.raised
          THEN /\ IterationRaises(t, stats)
               /\ UNCHANGED <<current_position, day_stats, trade_history, total_pnl>>
          ELSE /\ current_position' = out.current_position
               /\ day_stats' = out.day_stats
               /\ trade_history' = out.trade_history
               /\ total_pnl' = out.total_pnl
               /\ IterationReturns(t, Advance(out, me.signals, me.market_data, me.exit_check),
                                   me.market_data, S)
    /\ UNCHANGED <<clientVars, last_log, btVars, callVars, cacheVars, feedVars, state, shutdown_event, moex_client, client_session,
                   main_loop_task, health_check_task, finalized, start_calls, stop_calls>>

NextEngine ==
    \/ \E c \in StartIds, healthy \in BOOLEAN : Start(c, healthy)
    \/ \E c \in StartIds : StartEmergencyDone(c)
    \/ \E c \in StopIds : StopBegin(c)
    \/ \E c \in StopIds : StopJoin(c)
    \/ \E c \in StopIds : StopClose(c)
    \/ \E t \in TaskIds : TaskCancelled(t)
    \/ \E t \in TaskIds, healthy \in BOOLEAN : HealthRun(t, healthy)
    \/ \E t \in TaskIds, inSession \in BOOLEAN :
          (shutdown_event \/ IterationsBegun < MaxIterations) /\ MainRun(t, inSession)
    \/ \E t \in TaskIds, ok \in BOOLEAN, enough \in CandlesEnough :
          \E result \in (IF ok THEN Snapshots ELSE {NoMarketData}),
             signals \in (IF ok /\ enough THEN SignalSeqs ELSE {<< >>}) :
             MainFetch(t, ok, result, enough, signals)
    \/ \E t \in TaskIds, sec \in SecInfoResults : MainSecInfo(t, sec)

SpecEngine == Init /\ [][NextEngine]_vars

\* One engine, started once with healthy components and stopped once, whose
\* main loop runs several iterations.
MaxLoopIterations == 2

NextLoop ==
    \/ Start(1, TRUE)
    \/ StopBegin(1)
    \/ StopJoin(1)
    \/ StopClose(1)
    \/ \E t \in TaskIds : TaskCancelled(t)
    \/ \E t \in TaskIds : HealthRun(t, TRUE)
    \/ \E t \in TaskIds, inSession \in BOOLEAN :
          (shutdown_event \/ IterationsBegun < MaxLoopIterations) /\ MainRun(t, inSession)
    \/ \E t \in TaskIds, ok \in BOOLEAN, enough \in CandlesEnough :
          \E result \in (IF ok THEN Snapshots ELSE {NoMarketData}),
             signals \in (IF ok /\ enough THEN SignalSeqs ELSE {<< >>}) :
             MainFetch(t, ok, result, enough, signals)
    \/ \E t \in TaskIds, sec \in SecInfoResults : MainSecInfo(t, sec)

SpecLoop == Init /\ [][NextLoop]_vars

(***************************************************************************)
(* Claims about the lifecycle (checked under SpecEngine)                   *)
(***************************************************************************)
StateChain ==
    {<<"initializing", "running">>, <<"running", "paused">>, <<"paused", "running">>,
     <<"running", "stopping">>, <<"paused", "stopping">>, <<"stopping", "stopped">>}

\* C3: every change of TradingEngine.state is a link of the chain
\* initializing -> running <-> paused -> stopping -> stopped: running is never
\* entered from stopping or stopped, stopping never from initializing, and
\* stopped is never left.
C3_StateFollowsChain ==
    [][state' # state => <<state, state'>> \in StateChain]_vars

StopEnds(c) ==
    /\ stop_calls[c].pc \notin {"returned", "raised"}
    /\ stop_calls'[c].pc \in {"returned", "raised"}

\* C4: a stop() called on a running engine ends by returning, with state
\* stopped, the main-loop and health-check tasks it had to join done, the
\* market-data client closed and the session finalized, whatever the main
\* loop did or however it ended before the call.
C4_StopReachesStopped ==
    [][\A c \in StopIds :
           StopEnds(c) /\ stop_calls'[c].entry_state = "running"
               => /\ stop_calls'[c].pc = "returned"
                  /\ state' = "stopped"
                  /\ \A i \in 1..Len(stop_calls'[c].tasks_to_cancel) :
                         TaskDone(tasks', stop_calls'[c].tasks_to_cancel[i])
                  /\ ~client_session'[moex_client']
                  /\ finalized']_vars

\* C5: the step in which the main loop counts an iteration's exception in
\* stats['errors'] records one alert and leaves every running loop task
\* running, so that the loop goes on to its sleep and its next iteration.
C5_IterationErrorCaughtLoopAlive ==
    [][stats'.errors = stats.errors + 1
           => /\ alert_history' = alert_history + 1
              /\ \A t \in TaskIds : tasks[t].st = "active" => tasks'[t].st = "active"]_vars

UnhealthyCall(c) == ~start_calls[c].healthy

\* C6: a start() whose health check finds an unhealthy component does not
\* set state to running and creates no task (it enters _emergency_shutdown
\* in state stopping); when it is over it has raised, its client is closed
\* and state is stopped; its two tasks are never created.
C6_UnhealthyStartRefused ==
    /\ [](\A c \in StartIds :
              UnhealthyCall(c)
                  => /\ start_calls[c].pc \in {"emergency", "raised"}
                     /\ tasks[MainTaskOf(c)].st = "unborn"
                     /\ tasks[HealthTaskOf(c)].st = "unborn"
                     /\ main_loop_task # MainTaskOf(c)
                     /\ health_check_task # HealthTaskOf(c)
                     /\ start_calls[c].pc = "raised" => ~client_session[c])
    /\ [][\A c \in StartIds :
              /\ (start_calls[c].pc = "idle" /\ UnhealthyCall(c)')
                     => state' = "stopping" /\ client_session'[c] /\ tasks' = tasks
              /\ (start_calls[c].pc = "emergency" /\ start_calls'[c] # start_calls[c])
                     => /\ start_calls'[c].pc = "raised"
                        /\ state' = "stopped"
                        /\ ~client_session'[c]
                        /\ tasks' = tasks]_vars

\* C6 witness: an unhealthy start() has raised with its client closed, no
\* task created and the engine stopped.
C6_Witness ==
    \E c \in StartIds :
        /\ start_calls[c].pc = "raised" /\ UnhealthyCall(c)
        /\ moex_client = c /\ ~client_session[c]
        /\ main_loop_task = 0 /\ health_check_task = 0
        /\ state = "stopped"

\* C7: stop() called while state is stopped (or while another stop is in
\* progress) returns without raising and changes nothing: state, position,
\* day stats, trade history, counters, tasks, client and alerts are as before.
C7_StopIdempotent ==
    [][\A c \in StopIds :
           stop_calls[c].pc = "idle" /\ stop_calls'[c].pc # "idle" /\ state \in {"stopping", "stopped"}
               => /\ stop_calls'[c].pc = "returned"
                  /\ UNCHANGED <<tradeVars, state, shutdown_event, moex_client, client_session,
                                 main_loop_task, health_check_task, tasks, alert_history,
                                 finalized, start_calls>>]_vars

\* C7 witness: an engine that has traded was stopped, and a second stop()
\* called in state stopped has returned.
C7_Witness ==
    /\ \E c \in StopIds : stop_calls[c].pc = "returned" /\ stop_calls[c].entry_state = "stopped"
    /\ \E c \in StopIds : stop_calls[c].pc = "returned" /\ stop_calls[c].entry_state = "running"
    /\ state = "stopped"
    /\ Len(trade_history) >= 1

(***************************************************************************)
(* AsyncMoexClient: circuit breaker, rate limit and retries of             *)
(* _request_json                                                           *)
(***************************************************************************)
\* _check_circuit_breaker that ignores the timeout of an open breaker.
check_circuit_breaker_no_timeout(cb, now) ==
    IF cb.state = "open"
    THEN [allowed |-> TRUE, circuit_breaker |-> [cb EXCEPT !.state = "half_open"]]
    ELSE [allowed |-> TRUE, circuit_breaker |-> cb]

\* _check_circuit_breaker: whether the request is allowed, and the breaker
\* after the check.
check_circuit_breaker(cb, now) ==
    IF cb.state = "open"
    THEN IF (now - (IF cb.last_failure_time # None THEN cb.last_failure_time ELSE now))
                > circuit_breaker_timeout
         THEN [allowed |-> TRUE, circuit_breaker |-> [cb EXCEPT !.state = "half_open"]]
         ELSE [allowed |-> FALSE, circuit_breaker |-> cb]
    ELSE [allowed |-> TRUE, circuit_breaker |-> cb]

\* _record_success
record_success(cb) ==
    IF cb.state = "half_open" THEN [cb EXCEPT !.state = "closed", !.failures = 0] ELSE cb

\* _record_failure that opens the breaker only above the threshold.
record_failure_above_threshold(cb, now) ==
    LET failures == cb.failures + 1
    IN [failures |-> failures, last_failure_time |-> now,
        state |-> IF failures > circuit_breaker_threshold THEN "open" ELSE cb.state]

\* _record_failure
record_failure(cb, now) ==
    LET failures == cb.failures + 1
    IN [failures |-> failures, last_failure_time |-> now,
        state |-> IF failures >= circuit_breaker_threshold THEN "open" ELSE cb.state]

\* What one attempt of session.get can end in: a JSON payload, a status
\* other than 200, a Content-Type without json, a body that is not JSON,
\* asyncio.TimeoutError, aiohttp.ClientError.
Outcomes == {"ok", "http_status", "content_type", "json_decode", "timeout", "client_error"}
\* The outcomes for which the attempt itself calls _record_failure.
RecordedOutcomes == {"http_status", "content_type", "json_decode"}
\* The outcomes that come with a response, counted in requests_total.
ResponseOutcomes == {"ok"} \cup RecordedOutcomes

\* last_exc for a failed attempt: the AsyncMoexClientError raised inside the
\* try for a bad response is caught by `except Exception` and wrapped.
last_exc(outcome) ==
    IF outcome = "timeout" THEN "Request timeout"
    ELSE IF outcome = "client_error" THEN "HTTP client error"
    ELSE "Unexpected error"

\* AsyncMoexClient.start / close
ClientStart ==
    /\ ~session
    /\ session' = TRUE
    /\ UNCHANGED <<tradeVars, btVars, callVars, cacheVars, feedVars, lifeVars, circuit_breaker, metrics,
                   last_request_ts, rate_limit_lock, clock, requests, consecutive_failures,
                   last_attempt_ts>>

ClientClose ==
    /\ session
    /\ session' = FALSE
    /\ UNCHANGED <<tradeVars, btVars, callVars, cacheVars, feedVars, lifeVars, circuit_breaker, metrics,
                   last_request_ts, rate_limit_lock, clock, requests, consecutive_failures,
                   last_attempt_ts>>

\* Time passes.
Tick ==
    /\ clock < MaxClock
    /\ clock' = clock + 1
    /\ UNCHANGED <<tradeVars, btVars, callVars, cacheVars, feedVars, lifeVars, circuit_breaker, metrics, session,
                   last_request_ts, rate_limit_lock, requests, consecutive_failures,
                   last_attempt_ts>>

\* _wait_rate_limit that sleeps without holding _rate_limit_lock.
WaitRateLimit_unlocked(r, trial) ==
    LET remain == IF last_request_ts = None THEN 0
                  ELSE rate_limit_interval - (clock - last_request_ts)
    IN IF remain > 0
       THEN /\ rate_limit_lock' = 0
            /\ last_request_ts' = last_request_ts
            /\ last_attempt_ts' = last_attempt_ts
            /\ requests' = [requests EXCEPT ![r].pc = "rl_sleep", ![r].wake = clock + remain,
                                            ![r].trial = trial]
       ELSE /\ rate_limit_lock' = 0
            /\ last_request_ts' = clock
            /\ last_attempt_ts' = clock
            /\ requests' = [requests EXCEPT ![r].pc = "net", ![r].wake = 0, ![r].trial = trial]

\* _wait_rate_limit from the acquisition of the lock: it sleeps holding the
\* lock while less than rate_limit_interval has passed since
\* _last_request_ts, otherwise it stamps _last_request_ts and the request
\* goes to its first session.get.  None stands for the initial 0.0, long
\* before the loop's clock.
WaitRateLimit(r, trial) ==
    LET remain == IF last_request_ts = None THEN 0
                  ELSE rate_limit_interval - (clock - last_request_ts)
    IN IF remain > 0
       THEN /\ rate_limit_lock' = r
            /\ last_request_ts' = last_request_ts
            /\ last_attempt_ts' = last_attempt_ts
            /\ requests' = [requests EXCEPT ![r].pc = "rl_sleep", ![r].wake = clock + remain,
                                            ![r].trial = trial]
       ELSE /\ rate_limit_lock' = 0
            /\ last_request_ts' = clock
            /\ last_attempt_ts' = clock
            /\ requests' = [requests EXCEPT ![r].pc = "net", ![r].wake = 0, ![r].trial = trial]

\* _request_json up to its first suspension: the session test, the breaker
\* check, then the rate limit (rl_lock = waiting for _rate_limit_lock).
RequestBegin(r) ==
    /\ requests[r].pc = "idle"
    /\ \A q \in RequestIds : q < r => requests[q].pc # "idle"
    /\ IF ~session
       THEN /\ requests' = [requests EXCEPT ![r].pc = "raised",
                                            ![r].error = "Client not started"]
            /\ UNCHANGED <<circuit_breaker, last_request_ts, rate_limit_lock, last_attempt_ts>>
       ELSE LET chk == check_circuit_breaker(circuit_breaker, clock)
                trial == circuit_breaker.state = "open" /\ chk.allowed
            IN /\ circuit_breaker' = chk.circuit_breaker
               /\ IF ~chk.allowed
                  THEN /\ requests' = [requests EXCEPT ![r].pc = "raised",
                                                       ![r].error = "Circuit breaker is open"]
                       /\ UNCHANGED <<last_request_ts, rate_limit_lock, last_attempt_ts>>
                  ELSE IF rate_limit_lock # 0
                  THEN /\ requests' = [requests EXCEPT ![r].pc = "rl_lock", ![r].trial = trial]
                       /\ UNCHANGED <<last_request_ts, rate_limit_lock, last_attempt_ts>>
                  ELSE WaitRateLimit(r, trial)
    /\ UNCHANGED <<tradeVars, btVars, callVars, cacheVars, feedVars, lifeVars, metrics, session, clock,
                   consecutive_failures>>

\* A request waiting for _rate_limit_lock gets it.
RateLimitAcquire(r) ==
    /\ requests[r].pc = "rl_lock"
    /\ rate_limit_lock = 0
    /\ WaitRateLimit(r, requests[r].trial)
    /\ UNCHANGED <<tradeVars, btVars, callVars, cacheVars, feedVars, lifeVars, circuit_breaker, metrics, session,
                   clock, consecutive_failures>>

\* The sleep of _wait_rate_limit is over: stamp, release, first session.get.
RateLimitWake(r) ==
    /\ requests[r].pc = "rl_sleep"
    /\ clock >= requests[r].wake
    /\ rate_limit_lock' = 0
    /\ last_request_ts' = clock
    /\ last_attempt_ts' = clock
    /\ requests' = [requests EXCEPT ![r].pc = "net", ![r].wake = 0]
    /\ UNCHANGED <<tradeVars, btVars, callVars, cacheVars, feedVars, lifeVars, circuit_breaker, metrics, session,
                   clock, consecutive_failures>>

\* The retry delay with twice the base.
retry_delay_doubled(attempt) == 2 * 2^attempt

\* delay = 0.5 * (2 ** attempt), in ticks.
retry_delay(attempt) == 2^attempt

\* One attempt of the retry loop, from the completion of session.get to the
\* next suspension: return on success, else the error is counted and the
\* request sleeps before its next attempt or, after the last attempt,
\* records one more failure and raises.
Attempt(r, outcome) ==
    /\ requests[r].pc = "net"
    /\ LET attempt == requests[r].attempt
           cb1 == IF outcome = "ok" THEN record_success(circuit_breaker)
                  ELSE IF outcome \in RecordedOutcomes THEN record_failure(circuit_breaker, clock)
                  ELSE circuit_breaker
           n1 == IF outcome = "ok" THEN 0
                 ELSE IF outcome \in RecordedOutcomes THEN consecutive_failures + 1
                 ELSE consecutive_failures
           last == attempt >= retries
       IN /\ metrics' = [requests_total |-> metrics.requests_total
                                               + (IF outcome \in ResponseOutcomes THEN 1 ELSE 0),
                         errors_total |-> metrics.errors_total + (IF outcome = "ok" THEN 0 ELSE 1)]
          /\ IF outcome = "ok"
             THEN /\ circuit_breaker' = cb1
                  /\ consecutive_failures' = n1
                  /\ requests' = [requests EXCEPT ![r] = [IdleRequest EXCEPT !.pc = "returned"]]
             ELSE IF ~last
             THEN /\ circuit_breaker' = cb1
                  /\ consecutive_failures' = n1
                  /\ requests' = [requests EXCEPT ![r].pc = "backoff",
                                                  ![r].wake = clock + retry_delay(attempt)]
             ELSE /\ circuit_breaker' = record_failure(cb1, clock)
                  /\ consecutive_failures' = n1 + 1
                  /\ requests' = [requests EXCEPT ![r] = [IdleRequest EXCEPT !.pc = "raised",
                                                                            !.error = last_exc(outcome)]]
    /\ UNCHANGED <<tradeVars, btVars, callVars, cacheVars, feedVars, lifeVars, session, last_request_ts,
                   rate_limit_lock, clock, last_attempt_ts>>

\* The sleep between two attempts is over: the next session.get.
BackoffWake(r) ==
    /\ requests[r].pc = "backoff"
    /\ clock >= requests[r].wake
    /\ requests' = [requests EXCEPT ![r].pc = "net", ![r].attempt = @ + 1, ![r].wake = 0]
    /\ last_attempt_ts' = clock
    /\ UNCHANGED <<tradeVars, btVars, callVars, cacheVars, feedVars, lifeVars, circuit_breaker, metrics, session,
                   last_request_ts, rate_limit_lock, clock, consecutive_failures>>

NextClient ==
    \/ ClientStart
    \/ ClientClose
    \/ Tick
    \/ \E r \in RequestIds : RequestBegin(r)
    \/ \E r \in RequestIds : RateLimitAcquire(r)
    \/ \E r \in RequestIds : RateLimitWake(r)
    \/ \E r \in RequestIds, outcome \in Outcomes : Attempt(r, outcome)
    \/ \E r \in RequestIds : BackoffWake(r)

SpecClient == Init /\ [][NextClient]_vars

(***************************************************************************)
(* Claims about the circuit breaker (checked under SpecClient)             *)
(***************************************************************************)
\* C8: the breaker is never closed with failures >= circuit_breaker_threshold,
\* and a recorded failure that brings the count to the threshold or above
\* leaves the breaker open.
C8_NeverClosedAtThreshold ==
    /\ [](circuit_breaker.state = "closed"
              => circuit_breaker.failures < circuit_breaker_threshold)
    /\ [][circuit_breaker'.failures > circuit_breaker.failures
              /\ circuit_breaker'.failures >= circuit_breaker_threshold
              => circuit_breaker'.state = "open"]_vars

\* C8 witness: the threshold-th failure in a row has just opened the breaker.
C8_Witness ==
    /\ circuit_breaker.state = "open"
    /\ circuit_breaker.failures = circuit_breaker_threshold
    /\ consecutive_failures = circuit_breaker_threshold

SuccessStep(r) == requests[r].pc = "net" /\ requests'[r].pc = "returned"

\* C9: a request that succeeds while the breaker is closed resets the
\* failure count, and the breaker goes from closed to open only when the
\* failures recorded since the last success number at least the threshold.
C9_OpensOnConsecutiveFailuresOnly ==
    [][ /\ \A r \in RequestIds :
               SuccessStep(r) /\ circuit_breaker.state = "closed"
                   => circuit_breaker'.failures = 0
        /\ circuit_breaker.state = "closed" /\ circuit_breaker'.state = "open"
               => consecutive_failures' >= circuit_breaker_threshold ]_vars

OpenBeforeTimeout ==
    /\ circuit_breaker.state = "open"
    /\ circuit_breaker.last_failure_time # None
    /\ clock - circuit_breaker.last_failure_time < circuit_breaker_timeout

\* C10: a request issued on a started client while the breaker is open and
\* less than circuit_breaker_timeout has passed since the last recorded
\* failure raises "Circuit breaker is open" at once: it makes no attempt,
\* takes no rate-limit wait, and leaves breaker, metrics, _last_request_ts
\* and the rate-limit lock as they were.
C10_OpenBreakerRejectsAtOnce ==
    [][\A r \in RequestIds :
           requests[r].pc = "idle" /\ requests'[r].pc # "idle" /\ session /\ OpenBeforeTimeout
               => /\ requests'[r].pc = "raised"
                  /\ requests'[r].error = "Circuit breaker is open"
                  /\ UNCHANGED <<circuit_breaker, metrics, last_request_ts, rate_limit_lock,
                                 consecutive_failures>>]_vars

\* C10 witness: a request has been rejected by the open breaker, which is
\* still open within its timeout.
C10_Witness ==
    /\ \E r \in RequestIds : requests[r].pc = "raised" /\ requests[r].error = "Circuit breaker is open"
    /\ OpenBeforeTimeout
    /\ session

InFlight(r) == requests[r].pc \in {"rl_lock", "rl_sleep", "net", "backoff"}
RequestBegins(r) == requests[r].pc = "idle" /\ requests'[r].pc # "idle"

\* C11: while the breaker is half_open and the trial request admitted by the
\* transition open -> half_open is still in flight, any other request that
\* is issued is rejected at once, without a network attempt.
C11_OneTrialInHalfOpen ==
    [][\A r \in RequestIds :
           /\ RequestBegins(r) /\ session
           /\ circuit_breaker.state = "half_open"
           /\ \E q \in RequestIds : q # r /\ InFlight(q) /\ requests[q].trial
           => /\ requests'[r].pc = "raised"
              /\ requests'[r].error = "Circuit breaker is open"]_vars

PhaseChanges ==
    {<<"closed", "open">>, <<"open", "half_open">>, <<"half_open", "closed">>,
     <<"half_open", "open">>}

\* C12: the breaker phase changes only by closed -> open, open -> half_open,
\* half_open -> closed and half_open -> open; the trial request admitted by
\* open -> half_open ends in closed with failure count 0 when it succeeds
\* and in open when it fails.
C12_TrialEndsClosedOrOpen ==
    [][ /\ circuit_breaker'.state # circuit_breaker.state
            => <<circuit_breaker.state, circuit_breaker'.state>> \in PhaseChanges
        /\ \A r \in RequestIds :
               requests[r].trial /\ requests[r].pc = "net"
                   => /\ requests'[r].pc = "returned"
                          => circuit_breaker'.state = "closed" /\ circuit_breaker'.failures = 0
                      /\ requests'[r].pc = "raised" => circuit_breaker'.state = "open" ]_vars

RetryErrors == {"Request timeout", "HTTP client error", "Unexpected error"}

\* C13: a request makes attempts 0..retries at most; it raises only from its
\* attempt number retries (the retries+1-th), at once and with an
\* AsyncMoexClientError; an earlier failed attempt is followed by a sleep of
\* 0.5 * 2^attempt seconds (2^attempt ticks) and then by the next attempt.
C13_RetriesWithBackoff ==
    /\ [](\A r \in RequestIds : requests[r].attempt <= retries)
    /\ [][\A r \in RequestIds :
              /\ requests[r].pc = "net" /\ requests'[r] # requests[r]
                     => /\ requests'[r].pc \in {"returned", "backoff", "raised"}
                        /\ requests'[r].pc = "raised"
                               => requests[r].attempt = retries /\ requests'[r].error \in RetryErrors
                        /\ requests'[r].pc = "backoff"
                               => /\ requests[r].attempt < retries
                                  /\ requests'[r].attempt = requests[r].attempt
                                  /\ requests'[r].wake = clock + 2^(requests[r].attempt)
              /\ requests[r].pc = "backoff" /\ requests'[r] # requests[r]
                     => /\ requests'[r].pc = "net"
                        /\ requests'[r].attempt = requests[r].attempt + 1
                        /\ clock >= requests[r].wake]_vars

\* C13 witness: a request all of whose attempts timed out has raised after
\* retries + 1 attempts and the delays between them.
C13_Witness ==
    /\ requests[1].pc = "raised" /\ requests[1].error = "Request timeout"
    /\ requests[2].pc = "idle"
    /\ metrics = [requests_total |-> 0, errors_total |-> retries + 1]
    /\ clock >= 2^retries - 1

AttemptStarts(r) == requests[r].pc # "net" /\ requests'[r].pc = "net"

\* C14: every HTTP attempt of a client, the retries of a request included,
\* starts at least rate_limit_interval after the attempt before it.
C14_AttemptsSpacedByRateLimit ==
    [][\A r \in RequestIds :
           AttemptStarts(r) /\ last_attempt_ts # None
               => clock - last_attempt_ts >= rate_limit_interval]_vars

(***************************************************************************)
(* Further claims about signal processing (checked under SpecTrade)        *)
(***************************************************************************)
RECURSIVE EnginePnls(_)
EnginePnls(h) ==
    IF h = << >> THEN << >>
    ELSE IF Head(h).pnl_realized = << >> THEN EnginePnls(Tail(h))
    ELSE <<Head(h).pnl_realized[1]>> \o EnginePnls(Tail(h))

BacktestPnls == [i \in 1..Len(bt.trades_rows) |-> bt.trades_rows[i].pnl_rub]

\* C15: after every signal that both drivers have processed, if they have
\* made the same open/close decisions so far (the same fills in the same
\* order), their DayStats are identical and so is the realized PnL of every
\* closed trade.
C15_EngineMatchesBacktest ==
    [](live_done /\ bt_done /\ HistorySides = bt.fills
           => /\ day_stats = bt.day_stats
              /\ EnginePnls(trade_history) = BacktestPnls)

FeedQuote == best_bid_ask_from_bar(feed.bar)

BacktestExitFill ==
    execute([side |-> "SELL", best_bid |-> FeedQuote.bid, best_ask |-> FeedQuote.ask,
             lot_size |-> LotSize, max_position_rub |-> MaxPositionRub,
             desired_position_shares |-> bt.open_pos.qty_shares])

\* C17: whenever a position is cleared, in the engine or in the backtest, the
\* SELL fill that cleared it has the position's qty_shares.
C17_ExitFillsWholePosition ==
    [][ /\ current_position # NoPosition /\ current_position' = NoPosition
            => trade_history'[Len(trade_history')].execution.qty_shares
                   = current_position.qty_shares
        /\ bt.open_pos # NoPosition /\ bt'.open_pos = NoPosition
            => BacktestExitFill.qty_shares = bt.open_pos.qty_shares ]_vars

\* C18: in the backtest a BUY that is the first signal of a new trading day,
\* arriving with no position open and a quote on which an entry can be
\* filled, opens a position: counts and losses of earlier days do not
\* reject it.
C18_BacktestLimitsPerDay ==
    [][BacktestStep /\ feed.signal.type = "BUY" /\ feed.new_day
           /\ bt.open_pos = NoPosition
           /\ backtest_buy([bt EXCEPT !.day_stats = NewDayStats], feed.signal, FeedQuote).open_pos
                  # NoPosition
           => bt'.open_pos # NoPosition]_vars

(***************************************************************************)
(* Claims about the main loop over several iterations (checked under       *)
(* SpecLoop)                                                               *)
(***************************************************************************)
\* The stop-loss/take-profit rule gives STOP or TAKE for pos on the quote md.
ExitDue(pos, md) ==
    /\ pos # NoPosition
    /\ Truthy(md.LAST)
    /\ check_exit_rules_for_long(pos, md.LAST) \in {"STOP", "TAKE"}

\* After the step task t is inside _process_signal closing pos on the quote md.
CloseAttempt(t, pos, md) ==
    /\ tasks'[t].st = "active" /\ tasks'[t].pc = "secinfo"
    /\ tasks'[t].signal.type \in {"SELL", "CLOSE_LONG"}
    /\ tasks'[t].position = pos
    /\ tasks'[t].market_data = md

RECURSIVE SeqSum(_)
SeqSum(q) == IF q = << >> THEN 0 ELSE Head(q) + SeqSum(Tail(q))

\* Every TradeRecord carries a complete ExecutedTrade, the records alternate
\* BUY and SELL, and position, day stats, counters and total PnL are those
\* of exactly the recorded fills.
TradeStateConsistent ==
    /\ \A i \in 1..Len(trade_history) :
          /\ trade_history[i].execution # NoTrade
          /\ trade_history[i].execution.qty_shares > 0
          /\ trade_history[i].execution.side = (IF i % 2 = 1 THEN "BUY" ELSE "SELL")
          /\ (trade_history[i].pnl_realized # << >>) = (i % 2 = 0)
    /\ current_position = (IF trade_history = << >> THEN NoPosition
                           ELSE trade_history[Len(trade_history)].position_after)
    /\ current_position # NoPosition
           => /\ current_position.qty_shares
                     = trade_history[Len(trade_history)].execution.qty_shares
              /\ current_position.entry_price
                     = trade_history[Len(trade_history)].execution.exec_price
    /\ stats.trades_executed = Len(trade_history)
    /\ day_stats.trades_count = Len(trade_history) \div 2
    /\ total_pnl = SeqSum(EnginePnls(trade_history))

\* C19: when the main loop task has been cancelled by stop(), at whichever
\* suspension point of its iteration, current_position, day_stats and
\* trade_history are mutually consistent (every signal's position change,
\* day-stats update and complete TradeRecord are all applied or none is),
\* and the cancellation itself changes none of them.
C19_CancelKeepsTradeStateConsistent ==
    /\ [](\A t \in TaskIds : IsMainTask(t) /\ tasks[t].st = "cancelled" => TradeStateConsistent)
    /\ [][\A t \in TaskIds : IsMainTask(t) /\ tasks[t].st = "active" /\ tasks'[t].st = "cancelled"
              => UNCHANGED <<current_position, day_stats, trade_history, total_pnl, stats>>]_vars

\* C19 witness: the task was cancelled while suspended inside _process_signal
\* (in get_security_info of the exit attempt that followed the entry in its
\* first iteration, which therefore was never counted), with the entry
\* recorded and the position open.
C19_Witness ==
    /\ tasks[MainTaskOf(1)].st = "cancelled"
    /\ stats.iterations = 0 /\ stats.errors = 0 /\ stats.signals_processed = 1
    /\ Len(trade_history) = 1 /\ current_position # NoPosition
    /\ state = "stopped"

\* C20: an iteration outside the trading session window fetches no quote,
\* processes no signal, leaves current_position, day_stats and trade_history
\* unchanged and returns (it is counted as an iteration, not as an error, and
\* the loop goes on); with a position open it records one anomaly alert, with
\* none it records no alert.
C20_OutOfSessionOnlyAlerts ==
    [][\A t \in TaskIds :
          MainRun(t, FALSE) /\ ~shutdown_event
              => /\ UNCHANGED <<current_position, day_stats, trade_history, total_pnl>>
                 /\ stats' = [stats EXCEPT !.iterations = @ + 1]
                 /\ tasks'[t].st = "active" /\ tasks'[t].pc = "loop"
                 /\ alert_history' = IF current_position # NoPosition
                                     THEN alert_history + 1 ELSE alert_history]_vars

(***************************************************************************)
(* Single calls of ExecutionSimulator.execute                              *)
(***************************************************************************)
MaxPrice == 3
MaxLot == 3
MaxCap == 12
MaxDesired == 6

Quotes == {None} \cup 0..MaxPrice

ExecutionInputs ==
    [side : {"BUY", "SELL"}, best_bid : Quotes, best_ask : Quotes, lot_size : 1..MaxLot,
     max_position_rub : 0..MaxCap, desired_position_shares : {None} \cup 0..MaxDesired]

\* The L1 snapshots and the bar quotes an entry can be given.
EntrySnapshots == [BID : Quotes, OFFER : Quotes, LAST : Quotes]

EntryQuotes == [bid : Quotes, ask : Quotes]

InitExec ==
    /\ InitTrade /\ InitBacktest /\ InitFeed /\ InitLife /\ InitClient /\ InitCache /\ InitDb
    /\ pure_call \in
          {[fn |-> "execute", done |-> FALSE, inp |-> inp] : inp \in ExecutionInputs}
              \cup {[fn |-> "process_signal", done |-> FALSE, inp |-> md] : md \in EntrySnapshots}
              \cup {[fn |-> "backtest_buy", done |-> FALSE, inp |-> q] : q \in EntryQuotes}

Execute ==
    /\ pure_call.fn = "execute" /\ ~pure_call.done
    /\ pure_call' = [fn |-> "execute", done |-> TRUE, inp |-> pure_call.inp, out |-> execute(pure_call.inp)]
    /\ UNCHANGED <<tradeVars, btVars, feedVars, lifeVars, clientVars, cacheVars, dbVars>>

\* The engine, holding no position, processes a BUY on the snapshot; the
\* result is the position it holds afterwards.
EngineEntry ==
    /\ pure_call.fn = "process_signal" /\ ~pure_call.done
    /\ pure_call' = [fn |-> "process_signal", done |-> TRUE, inp |-> pure_call.inp,
                     out |-> process_signal(EngineView, [type |-> "BUY"], pure_call.inp,
                                            "ok").current_position]
    /\ UNCHANGED <<tradeVars, btVars, feedVars, lifeVars, clientVars, cacheVars, dbVars>>

\* The backtest, holding no position, processes a BUY on the bar's quote.
BacktestEntry ==
    /\ pure_call.fn = "backtest_buy" /\ ~pure_call.done
    /\ pure_call' = [fn |-> "backtest_buy", done |-> TRUE, inp |-> pure_call.inp,
                     out |-> backtest_buy(bt, [type |-> "BUY"], pure_call.inp).open_pos]
    /\ UNCHANGED <<tradeVars, btVars, feedVars, lifeVars, clientVars, cacheVars, dbVars>>

NextExec ==
    \/ Execute
    \/ EngineEntry
    \/ BacktestEntry

SpecExec == InitExec /\ [][NextExec]_vars

(***************************************************************************)
(* Claims about execute (checked under SpecExec)                           *)
(***************************************************************************)
\* The largest multiple of lot_size whose notional at price is within cap.
CapQty(price, lot_size, cap) ==
    LET fits == {q \in 0..(2 * MaxCap + 2) : q % lot_size = 0 /\ q * price <= cap * Scale}
    IN CHOOSE q \in fits : \A o \in fits : o <= q

LotsFloor(n, lot_size) == (n \div lot_size) * lot_size

Returned(fn) == pure_call.fn = fn /\ pure_call.done

\* The call of execute has returned what a request for `expected` shares is
\* to return: no trade when expected is zero, a trade of that size otherwise.
FillsExactly(expected) ==
    IF expected = 0 THEN pure_call.out = NoTrade
    ELSE pure_call.out # NoTrade /\ pure_call.out.qty_shares = expected

ExecPrice == calc_exec_price(pure_call.inp.side, pure_call.inp.best_bid, pure_call.inp.best_ask)

ExecCapQty == CapQty(ExecPrice, pure_call.inp.lot_size, pure_call.inp.max_position_rub)

PositiveLots(qty_shares, lot_size) == qty_shares > 0 /\ qty_shares % lot_size = 0

\* C22: every ExecutedTrade returned by execute has qty_shares > 0 and
\* qty_shares = qty_lots * lot_size, and every position the engine or the
\* backtest opens has a quantity that is a positive multiple of the lot size.
C22_FillsAndPositionsAreWholeLots ==
    /\ Returned("execute") /\ pure_call.out # NoTrade
           => /\ pure_call.out.qty_shares > 0
              /\ pure_call.out.qty_shares = pure_call.out.qty_lots * pure_call.inp.lot_size
    /\ (Returned("process_signal") \/ Returned("backtest_buy")) /\ pure_call.out # NoPosition
           => PositiveLots(pure_call.out.qty_shares, LotSize)

\* C22 witness: the engine has opened a position of several lots.
C22_Witness ==
    /\ Returned("process_signal") /\ pure_call.out # NoPosition
    /\ pure_call.out.qty_shares >= 2 * LotSize
    /\ pure_call.out.qty_shares % LotSize = 0

(***************************************************************************)
(* Single calls of RiskManager                                             *)
(***************************************************************************)
MaxPct == 3
MaxRr == 4
MaxCloses == 2

\* RiskManager.__init__ keeps whatever risk_limits it is given.
RiskConfigs ==
    [stop_loss_pct_max : 0..MaxPct, take_profit_pct_min : 0..MaxPct,
     take_profit_pct_max : 0..MaxPct, min_rr : 0..MaxRr]

NewPositions ==
    [entry_price : 0..MaxPrice, qty_shares : {LotSize}, sl_price : {None}, tp_price : {None}]

\* Price levels of a position, in the unit of check_exit_rules_for_long.
Levels == {None} \cup {p * Scale * StopScale : p \in 0..MaxPrice}

HeldPositions ==
    [entry_price : {None}, qty_shares : (0 - 1)..1, sl_price : Levels, tp_price : Levels]

CloseArgs ==
    [entry_price : 0..MaxPrice, exit_price : 0..MaxPrice, qty_shares : 0..MaxLot,
     commission_rub : 0..1]

InitRisk ==
    /\ InitTrade /\ InitBacktest /\ InitFeed /\ InitLife /\ InitClient /\ InitCache /\ InitDb
    /\ pure_call \in
          {[fn |-> "assign_stops_for_long", done |-> FALSE, inp |-> [risk |-> r, pos |-> pos]] :
               r \in RiskConfigs, pos \in NewPositions}
              \cup {[fn |-> "check_exit_rules_for_long", done |-> FALSE,
                     inp |-> [pos |-> pos, last_price |-> l]] :
                        pos \in HeldPositions, l \in Quotes}
              \cup {[fn |-> "update_day_stats_on_close", done |-> FALSE]}

AssignStops ==
    /\ pure_call.fn = "assign_stops_for_long" /\ ~pure_call.done
    /\ pure_call' = [fn |-> pure_call.fn, done |-> TRUE, inp |-> pure_call.inp,
                     out |-> assign_stops_for_long_of(pure_call.inp.risk, pure_call.inp.pos)]
    /\ UNCHANGED <<tradeVars, btVars, feedVars, lifeVars, clientVars, cacheVars, dbVars>>

CheckExit ==
    /\ pure_call.fn = "check_exit_rules_for_long" /\ ~pure_call.done
    /\ pure_call' = [fn |-> pure_call.fn, done |-> TRUE, inp |-> pure_call.inp,
                     out |-> check_exit_rules_for_long(pure_call.inp.pos,
                                                       pure_call.inp.last_price)]
    /\ UNCHANGED <<tradeVars, btVars, feedVars, lifeVars, clientVars, cacheVars, dbVars>>

\* update_day_stats_on_close on a new DayStats, then on the DayStats the
\* call before returned.
UpdateDayStats(a) ==
    /\ pure_call.fn = "update_day_stats_on_close"
    /\ LET stats_in == IF pure_call.done THEN pure_call.out ELSE NewDayStats
       IN /\ stats_in.trades_count < MaxCloses
          /\ pure_call' = [fn |-> pure_call.fn, done |-> TRUE,
                           inp |-> [stats |-> stats_in, args |-> a],
                           out |-> update_day_stats_on_close(stats_in, a.entry_price,
                                       a.exit_price, a.qty_shares, a.commission_rub)]
    /\ UNCHANGED <<tradeVars, btVars, feedVars, lifeVars, clientVars, cacheVars, dbVars>>

NextRisk ==
    \/ AssignStops
    \/ CheckExit
    \/ \E a \in CloseArgs : UpdateDayStats(a)

SpecRisk == InitRisk /\ [][NextRisk]_vars

(***************************************************************************)
(* Claims about RiskManager (checked under SpecRisk)                       *)
(***************************************************************************)
StopsOrdered ==
    /\ pure_call.out.sl_price < pure_call.inp.pos.entry_price * StopScale
    /\ pure_call.inp.pos.entry_price * StopScale < pure_call.out.tp_price

TpPct(risk) ==
    Min(Max(risk.take_profit_pct_min * RrDen, risk.min_rr * risk.stop_loss_pct_max),
        risk.take_profit_pct_max * RrDen)

C24_StopPercentsFromConfig ==
    Returned("assign_stops_for_long") =>
        LET risk == pure_call.inp.risk
            entry == pure_call.inp.pos.entry_price
            capped == IF Max(risk.take_profit_pct_min * RrDen, risk.min_rr * risk.stop_loss_pct_max)
                             > risk.take_profit_pct_max * RrDen
                      THEN risk.take_profit_pct_max * RrDen
                      ELSE Max(risk.take_profit_pct_min * RrDen,
                               risk.min_rr * risk.stop_loss_pct_max)
        IN /\ pure_call.out.sl_price = entry * StopScale - entry * risk.stop_loss_pct_max * RrDen
           /\ pure_call.out.tp_price = entry * StopScale + entry * capped
           /\ pure_call.out.entry_price = entry
           /\ pure_call.out.qty_shares = pure_call.inp.pos.qty_shares

\* C24 witness: the cap take_profit_pct_max decided the take-profit price.
C24_Witness ==
    /\ Returned("assign_stops_for_long") /\ pure_call.inp.pos.entry_price = 1
    /\ pure_call.inp.risk.min_rr * pure_call.inp.risk.stop_loss_pct_max
           > pure_call.inp.risk.take_profit_pct_max * RrDen
    /\ pure_call.inp.risk.take_profit_pct_max > 0
    /\ pure_call.out.tp_price = StopScale + pure_call.inp.risk.take_profit_pct_max * RrDen

\* The price level is set and last_price is at or below / at or above it.
AtOrBelow(last_price, level) == level # None /\ last_price * Scale * StopScale <= level

AtOrAbove(last_price, level) == level # None /\ last_price * Scale * StopScale >= level

Usable(inp) == inp.last_price # None /\ inp.last_price > 0 /\ inp.pos.qty_shares > 0

ClosePnl(a) == (a.exit_price - a.entry_price) * a.qty_shares - a.commission_rub

\* C26: update_day_stats_on_close adds
\* pnl = (exit_price - entry_price) * qty - commission to realized PnL, adds
\* |pnl| to realized loss if and only if pnl < 0, and adds one to
\* trades_count; over any sequence of calls trades_count and realized loss
\* never decrease.
C26_DayStatsUpdate ==
    [][pure_call'.fn = "update_day_stats_on_close" /\ pure_call' # pure_call
          => LET before == pure_call'.inp.stats
                 after == pure_call'.out
                 pnl == ClosePnl(pure_call'.inp.args)
             IN /\ after.realized_pnl_rub = before.realized_pnl_rub + pnl
                /\ after.realized_loss_rub
                       = before.realized_loss_rub + (IF pnl < 0 THEN 0 - pnl ELSE 0)
                /\ after.trades_count = before.trades_count + 1
                /\ after.trades_count >= before.trades_count
                /\ after.realized_loss_rub >= before.realized_loss_rub
                /\ pure_call.done => before = pure_call.out]_vars

\* C26 witness: a losing close followed by a winning close: two trades
\* counted, the loss of the first one kept.
C26_Witness ==
    /\ Returned("update_day_stats_on_close")
    /\ pure_call.inp.stats.trades_count = 1 /\ pure_call.inp.stats.realized_loss_rub > 0
    /\ ClosePnl(pure_call.inp.args) > 0
    /\ pure_call.out.trades_count = 2
    /\ pure_call.out.realized_loss_rub = pure_call.inp.stats.realized_loss_rub

(***************************************************************************)
(* GazpBreakoutStrategy.generate_signals, one bar of its loop per step     *)
(***************************************************************************)
MaxBars == 3
lookback_swing == 1
min_bars_for_indicators == 2
vol_avg_window == 2

\* A row of candles_df: NaN everywhere, a one-price candle, or a candle
\* whose close is NaN.
CandleRows ==
    {[high |-> None, low |-> None, close |-> None],
     [high |-> 1, low |-> 1, close |-> 1],
     [high |-> 2, low |-> 2, close |-> 2],
     [high |-> 2, low |-> 1, close |-> None]}

Volumes == {None, 1, 2}

\* The last n elements of q (all of q when it is shorter).
LastN(q, n) == SubSeq(q, Max(1, Len(q) - n + 1), Len(q))

Defined(q) == {q[k] : k \in 1..Len(q)} \ {None}

SetMax(S) == CHOOSE x \in S : \A y \in S : y <= x

SetMin(S) == CHOOSE x \in S : \A y \in S : x <= y

RECURSIVE SumDefined(_)
SumDefined(q) ==
    IF q = << >> THEN 0
    ELSE (IF Head(q) = None THEN 0 ELSE Head(q)) + SumDefined(Tail(q))

CountDefined(q) == Cardinality({k \in 1..Len(q) : q[k] # None})

\* _swing_levels with the rolling window ending at the current bar (no shift).
swing_high_prev_unshifted(highs) ==
    LET w == Defined(LastN(highs, lookback_swing))
    IN IF w = {} THEN None ELSE SetMax(w)

\* _swing_levels at the current bar; highs / lows are the series up to and
\* including it: rolling(lookback_swing, min_periods=1).max() / .min(), NaN
\* skipped, shifted by one bar.
swing_high_prev(highs) ==
    LET w == Defined(LastN(SubSeq(highs, 1, Len(highs) - 1), lookback_swing))
    IN IF w = {} THEN None ELSE SetMax(w)

swing_low_prev(lows) ==
    LET w == Defined(LastN(SubSeq(lows, 1, Len(lows) - 1), lookback_swing))
    IN IF w = {} THEN None ELSE SetMin(w)

\* volume > vol_sma20 at the current bar, vol_sma20 being
\* rolling(vol_avg_window, min_periods=1).mean() with NaN skipped.
above_vol_sma(vols) ==
    LET w == LastN(vols, vol_avg_window)
    IN vols[Len(vols)] * CountDefined(w) > SumDefined(w)

vol_ok(volume_filter, vols) ==
    IF volume_filter /\ vols[Len(vols)] # None /\ CountDefined(LastN(vols, vol_avg_window)) > 0
    THEN above_vol_sma(vols)
    ELSE TRUE

breakout_buy(volume_filter, highs, vols) ==
    /\ highs[Len(highs)] # None
    /\ swing_high_prev(highs) # None
    /\ highs[Len(highs)] > swing_high_prev(highs)
    /\ vol_ok(volume_filter, vols)

breakdown(volume_filter, lows, vols) ==
    /\ lows[Len(lows)] # None
    /\ swing_low_prev(lows) # None
    /\ vol_ok(volume_filter, vols)
    /\ lows[Len(lows)] < swing_low_prev(lows)

\* The loop body without its two `continue`.
bar_signals_no_continue(i, row, buy, sell, close_long) ==
    (IF buy /\ row.close # None THEN <<[type |-> "BUY", bar |-> i]>> ELSE << >>)
        \o (IF sell /\ (row.close # None \/ row.high # None)
            THEN <<[type |-> "SELL", bar |-> i]>> ELSE << >>)
        \o (IF close_long THEN <<[type |-> "CLOSE_LONG", bar |-> i]>> ELSE << >>)

\* The signals the loop body appends for bar i: buy is whether any of the
\* three entry rules fired, sell whether rsi_sell and macd_neg_div did,
\* close_long whether the support broke.
bar_signals(i, row, buy, sell, close_long) ==
    IF buy
    THEN IF row.close # None THEN <<[type |-> "BUY", bar |-> i]>> ELSE << >>
    ELSE IF sell
    THEN IF row.close # None \/ row.high # None THEN <<[type |-> "SELL", bar |-> i]>> ELSE << >>
    ELSE IF close_long THEN <<[type |-> "CLOSE_LONG", bar |-> i]>>
    ELSE << >>

NoRules == [bar |-> 0, breakout_buy |-> FALSE, other_buy |-> FALSE, sell |-> FALSE,
            close_long |-> FALSE]

\* A call on a series shorter than min_bars_for_indicators, and a call on a
\* longer one with its bar 0 read.
InitStrategy ==
    /\ InitTrade /\ InitBacktest /\ InitFeed /\ InitLife /\ InitClient /\ InitCache /\ InitDb
    /\ pure_call \in
          {[fn |-> "generate_signals", done |-> FALSE, short |-> TRUE, signals |-> << >>]}
              \cup {[fn |-> "generate_signals", done |-> FALSE, short |-> FALSE,
                     volume_filter |-> vf, i |-> 1, candles |-> <<row>>, vols |-> <<v>>,
                     rules |-> NoRules, signals |-> << >>] :
                        vf \in BOOLEAN, row \in CandleRows, v \in Volumes}

\* `if candles_df is None or len(candles_df) < min_bars_for_indicators`.
GenerateShort ==
    /\ pure_call.fn = "generate_signals" /\ ~pure_call.done /\ pure_call.short
    /\ pure_call' = [fn |-> "generate_signals", done |-> TRUE, short |-> TRUE,
                     signals |-> << >>]
    /\ UNCHANGED <<tradeVars, btVars, feedVars, lifeVars, clientVars, cacheVars, dbVars>>

\* One pass of `for i in range(1, len(df))`: row and volume are bar i;
\* other_buy is rsi_buy or macd_pos_div, sell is rsi_sell and macd_neg_div.
\* Only the rows the later bars can still read are kept.
GenerateBar(row, volume, other_buy, sell) ==
    /\ pure_call.fn = "generate_signals" /\ ~pure_call.done /\ ~pure_call.short
    /\ pure_call.i < MaxBars
    /\ LET candles == Append(pure_call.candles, row)
           vols == Append(pure_call.vols, volume)
           highs == [k \in 1..Len(candles) |-> candles[k].high]
           lows == [k \in 1..Len(candles) |-> candles[k].low]
           bb == breakout_buy(pure_call.volume_filter, highs, vols)
           cl == breakdown(pure_call.volume_filter, lows, vols)
       IN pure_call' = [pure_call EXCEPT
              !.i = @ + 1,
              !.candles = LastN(candles, lookback_swing + 1),
              !.vols = LastN(vols, vol_avg_window),
              !.rules = [bar |-> pure_call.i, breakout_buy |-> bb, other_buy |-> other_buy,
                         sell |-> sell, close_long |-> cl],
              !.signals = @ \o bar_signals(pure_call.i, row, bb \/ other_buy, sell, cl)]
    /\ UNCHANGED <<tradeVars, btVars, feedVars, lifeVars, clientVars, cacheVars, dbVars>>

\* The loop ends: the series had i bars.
GenerateReturn ==
    /\ pure_call.fn = "generate_signals" /\ ~pure_call.done /\ ~pure_call.short
    /\ pure_call.i >= min_bars_for_indicators
    /\ pure_call' = [pure_call EXCEPT !.done = TRUE]
    /\ UNCHANGED <<tradeVars, btVars, feedVars, lifeVars, clientVars, cacheVars, dbVars>>

NextStrategy ==
    \/ GenerateShort
    \/ \E row \in CandleRows, volume \in Volumes, other_buy \in BOOLEAN, sell \in BOOLEAN :
          GenerateBar(row, volume, other_buy, sell)
    \/ GenerateReturn

SpecStrategy == InitStrategy /\ [][NextStrategy]_vars

\* The bar the loop has just handled.
BarHandled ==
    /\ pure_call.fn = "generate_signals" /\ ~pure_call.short
    /\ pure_call.rules.bar > 0

SignalsOfBar(i) ==
    {k \in 1..Len(pure_call.signals) : pure_call.signals[k].bar = i}

AnyBuyRule == pure_call.rules.breakout_buy \/ pure_call.rules.other_buy

\* C27: generate_signals returns at most one signal per bar, in increasing bar
\* order; a bar on which a BUY rule fired gets no SELL and no CLOSE_LONG, and
\* a bar on which the SELL rule fired gets no CLOSE_LONG.
C27_OneSignalPerBarByPriority ==
    BarHandled =>
        /\ \A k \in 1..(Len(pure_call.signals) - 1) :
              pure_call.signals[k].bar < pure_call.signals[k + 1].bar
        /\ AnyBuyRule =>
              \A k \in SignalsOfBar(pure_call.rules.bar) : pure_call.signals[k].type = "BUY"
        /\ pure_call.rules.sell =>
              \A k \in SignalsOfBar(pure_call.rules.bar) :
                  pure_call.signals[k].type # "CLOSE_LONG"

\* A BUY rule, the SELL rule and the support break all fired on a bar that
\* follows a bar with a signal, and the bar got the single BUY.
C27_Witness ==
    /\ BarHandled
    /\ AnyBuyRule /\ pure_call.rules.sell /\ pure_call.rules.close_long
    /\ Len(pure_call.signals) >= 2
    /\ pure_call.signals[Len(pure_call.signals)] = [type |-> "BUY", bar |-> pure_call.rules.bar]

\* C28: no returned signal belongs to a bar whose index is below
\* min_bars_for_indicators, whatever the length of the series.
C28_NoSignalBeforeMinBars ==
    pure_call.fn = "generate_signals" =>
        \A k \in 1..Len(pure_call.signals) :
            pure_call.signals[k].bar >= min_bars_for_indicators

\* The highs of the lookback_swing bars before the handled one (fewer at the
\* start of the series), NaN left out.
PriorHighs ==
    LET q == pure_call.candles
        n == Len(q)
    IN {q[k].high : k \in {j \in 1..(n - 1) : j >= n - lookback_swing}} \ {None}

CurrentHigh == pure_call.candles[Len(pure_call.candles)].high

CurrentVolume == pure_call.vols[Len(pure_call.vols)]

HighAbovePriorHighs ==
    /\ CurrentHigh # None
    /\ PriorHighs # {}
    /\ \A h \in PriorHighs : CurrentHigh > h

VolumeAboveAverage ==
    /\ CurrentVolume # None
    /\ CurrentVolume * CountDefined(pure_call.vols) > SumDefined(pure_call.vols)

MaxCash == 3
MaxShares == 2
MaxQuantity == 2
MaxTradePrice == 2
MaxTransactions == 2

Actions == {"BUY", "SELL", "HOLD"}

\* The objects execute_trade works on: the Portfolio row as loaded, and the
\* GAZP Position row as loaded or, when there is none, a new Position with
\* no shares. avg_purchase_price is kept as a fraction.
LoadedPosition(row) ==
    IF row.exists
    THEN [shares |-> row.shares, avg_purchase_price |-> <<row.avg_purchase_price, 1>>]
    ELSE [shares |-> 0, avg_purchase_price |-> <<0, 1>>]

\* The exception raised ("" when none) and the two objects as the call
\* leaves them.
execute_trade(portfolio_row, position_row, action, quantity, price) ==
    LET pos == LoadedPosition(position_row)
        total_amount == quantity * price
        result(raised, cash, p) == [raised |-> raised, current_cash |-> cash, position |-> p]
    IN IF ~portfolio_row.exists THEN result("ValueError", 0, pos)
       ELSE IF action = "BUY"
       THEN IF portfolio_row.current_cash < total_amount
            THEN result("ValueError", portfolio_row.current_cash, pos)
            ELSE IF pos.shares = 0
            THEN result("", portfolio_row.current_cash - total_amount,
                        [shares |-> quantity, avg_purchase_price |-> <<price, 1>>])
            ELSE IF pos.shares + quantity = 0
            THEN result("ZeroDivisionError", portfolio_row.current_cash - total_amount, pos)
            ELSE result("", portfolio_row.current_cash - total_amount,
                        [shares |-> pos.shares + quantity,
                         avg_purchase_price |->
                             <<pos.shares * position_row.avg_purchase_price + total_amount,
                               pos.shares + quantity>>])
       ELSE IF action = "SELL"
       THEN IF pos.shares < quantity
            THEN result("ValueError", portfolio_row.current_cash, pos)
            ELSE result("", portfolio_row.current_cash + total_amount,
                        [shares |-> pos.shares - quantity,
                         avg_purchase_price |->
                             IF pos.shares - quantity = 0 THEN <<0, 1>>
                             ELSE pos.avg_purchase_price])
       ELSE result("ValueError", portfolio_row.current_cash, pos)

PortfolioRows ==
    {NoRow} \cup {[exists |-> TRUE, current_cash |-> c] : c \in 0..MaxCash}

PositionRows ==
    {NoRow} \cup {[exists |-> TRUE, shares |-> n, avg_purchase_price |-> IF n = 0 THEN 0 ELSE 1] :
                     n \in 0..MaxShares}

\* A database with or without the user's portfolio and its GAZP position, and
\* no transaction yet.
InitPortfolio ==
    /\ InitTrade /\ InitBacktest /\ InitFeed /\ InitLife /\ InitClient /\ InitCache
    /\ portfolio \in PortfolioRows
    /\ position \in IF portfolio.exists THEN PositionRows ELSE {NoRow}
    /\ transactions = << >>
    /\ pure_call = [fn |-> "execute_trade", done |-> FALSE]

\* One call of execute_trade. The rows are loaded in sessions that are closed
\* before the objects are changed, and nothing writes the objects back: the
\* call stores the new Transaction row only.
ExecuteTrade(action, quantity, price) ==
    /\ pure_call.fn = "execute_trade"
    /\ Len(transactions) < MaxTransactions
    /\ LET out == execute_trade(portfolio, position, action, quantity, price)
       IN /\ pure_call' = [fn |-> "execute_trade", done |-> TRUE,
                           inp |-> [action |-> action, quantity |-> quantity, price |-> price],
                           out |-> out]
          /\ transactions' =
                 IF out.raised = ""
                 THEN Append(transactions, [action |-> action, shares |-> quantity, price |-> price,
                                                total_amount |-> quantity * price])
                 ELSE transactions
    /\ UNCHANGED <<tradeVars, btVars, feedVars, lifeVars, clientVars, cacheVars, portfolio,
                   position>>

NextPortfolio ==
    \E action \in Actions, quantity \in (-MaxQuantity)..MaxQuantity, price \in 0..MaxTradePrice :
        ExecuteTrade(action, quantity, price)

SpecPortfolio == InitPortfolio /\ [][NextPortfolio]_vars

\* The call that has just returned asked for more than the portfolio has.
Overdraws(inp) ==
    \/ inp.action = "BUY" /\ portfolio.exists /\ inp.quantity * inp.price > portfolio.current_cash
    \/ inp.action = "SELL" /\ portfolio.exists
          /\ inp.quantity > LoadedPosition(position).shares

C31_NoAttemptWhileOpen ==
    [][\A r \in RequestIds : AttemptStarts(r) => circuit_breaker'.state # "open"]_vars

\* The first request of a client has raised after its retries, and no other
\* request has been issued.
FirstRequestFailed ==
    /\ requests[1].pc = "raised" /\ requests[1].error \in RetryErrors
    /\ \A r \in RequestIds \ {1} : requests[r].pc = "idle"

\* C32: a request that raises after its retries adds exactly one to the
\* breaker's failure count, whatever made its attempts fail; stated for the
\* first request of a client, whose breaker starts with no failure.
C32_FailedRequestCountsOnce ==
    FirstRequestFailed => circuit_breaker.failures = 1

InLimiter(r) == requests[r].pc = "rl_sleep"

LeavesLimiter(r) ==
    requests[r].pc \in {"idle", "rl_lock", "rl_sleep"} /\ requests'[r].pc = "net"

\* C33: concurrent callers of _wait_rate_limit are serialized: a caller
\* leaves the limiter at least rate_limit_interval after the caller before
\* it, and at most one caller, the holder of the lock, is inside the
\* limiter's critical section.
C33_RateLimitSerializes ==
    /\ [](\A r, q \in RequestIds :
              /\ InLimiter(r) => rate_limit_lock = r
              /\ InLimiter(r) /\ InLimiter(q) => r = q)
    /\ [][\A r \in RequestIds :
              LeavesLimiter(r) /\ last_request_ts # None
                  => clock - last_request_ts >= rate_limit_interval]_vars

\* C33 witness: one caller has left the limiter, a second sleeps in it with
\* the lock, and a third waits for the lock.
C33_Witness ==
    /\ last_request_ts # None
    /\ \E r, q \in RequestIds : InLimiter(r) /\ requests[q].pc = "rl_lock"

(***************************************************************************)
(* One engine whose start() is called once more than in SpecEngine         *)
(***************************************************************************)
RestartIds == 1..(MaxStarts + 1)

RestartTaskIds == 1..(2 * (MaxStarts + 1))

\* TradingEngine.__init__, with room for the clients and tasks of every
\* start() call.
InitRestart ==
    /\ InitTrade /\ InitBacktest /\ InitFeed /\ InitClient /\ InitCache /\ InitDb
    /\ pure_call = NoCall
    /\ state = "initializing"
    /\ shutdown_event = FALSE
    /\ moex_client = 0
    /\ client_session = [c \in RestartIds |-> FALSE]
    /\ main_loop_task = 0
    /\ health_check_task = 0
    /\ tasks = [t \in RestartTaskIds |-> NewTask]
    /\ alert_history = 0
    /\ finalized = FALSE
    /\ start_calls = [c \in RestartIds |-> IdleCall]
    /\ stop_calls = [c \in StopIds |-> IdleStop]

\* Iterations begun so far by the main-loop task of any start() call.
RestartIterationsBegun ==
    stats.iterations + stats.errors
        + Cardinality({t \in RestartTaskIds :
                          tasks[t].st = "active" /\ tasks[t].pc \in {"fetch", "secinfo"}})

NextRestart ==
    \/ \E c \in RestartIds, healthy \in BOOLEAN :
          (\A d \in RestartIds : d < c => start_calls[d].pc # "idle") /\ Start(c, healthy)
    \/ \E c \in RestartIds :
          (\A d \in RestartIds : d < c => start_calls[d].pc # "idle") /\ StartHandlerFails(c)
    \/ \E c \in RestartIds : StartEmergencyDone(c)
    \/ \E c \in StopIds : StopBegin(c)
    \/ \E c \in StopIds : StopJoin(c)
    \/ \E c \in StopIds : StopClose(c)
    \/ \E t \in RestartTaskIds : TaskCancelled(t)
    \/ \E t \in RestartTaskIds, healthy \in BOOLEAN : HealthRun(t, healthy)
    \/ \E t \in RestartTaskIds, inSession \in BOOLEAN :
          (shutdown_event \/ RestartIterationsBegun < MaxIterations + 1)
              /\ MainRun(t, inSession)
    \/ \E t \in RestartTaskIds, ok \in BOOLEAN, enough \in CandlesEnough :
          \E result \in (IF ok THEN Snapshots ELSE {NoMarketData}),
             signals \in (IF ok /\ enough THEN SignalSeqs ELSE {<< >>}) :
             MainFetch(t, ok, result, enough, signals)
    \/ \E t \in RestartTaskIds, sec \in SecInfoResults : MainSecInfo(t, sec)

SpecRestart == InitRestart /\ [][NextRestart]_vars

(***************************************************************************)
(* Further claims about the lifecycle                                      *)
(***************************************************************************)
\* C34: every call of stop() that returns, a call made while another stop()
\* is in progress included, returns with the engine in state stopped.
C34_StopReturnsStopped ==
    [][\A c \in StopIds :
           StopEnds(c) /\ stop_calls'[c].pc = "returned" => state' = "stopped"]_vars

LoopTasks == {t \in DOMAIN tasks : tasks[t].st = "active"}

\* C35: while the engine state is stopped no main-loop task and no
\* health-check task is active, and current_position, day_stats and
\* trade_history do not change.
C35_StoppedMeansNoLoop ==
    /\ [](state = "stopped" => LoopTasks = {})
    /\ [][state = "stopped" => UNCHANGED <<current_position, day_stats, trade_history>>]_vars

\* C36: whatever start() and stop() calls are made, at most one main-loop
\* task and at most one health-check task are active.
C36_OneLoopTaskOfEachKind ==
    /\ Cardinality({t \in LoopTasks : IsMainTask(t)}) <= 1
    /\ Cardinality({t \in LoopTasks : ~IsMainTask(t)}) <= 1

(***************************************************************************)
(* Further claim about RiskManager (checked under SpecRisk)                *)
(***************************************************************************)
\* C40: for every risk configuration the position assign_stops_for_long
\* returns has (tp_price - entry_price) >= min_rr * (entry_price - sl_price),
\* min_rr being risk.min_rr / RrDen.
C40_RewardRiskAtLeastMinRr ==
    Returned("assign_stops_for_long") =>
        (pure_call.out.tp_price - pure_call.inp.pos.entry_price * StopScale) * RrDen
            >= pure_call.inp.risk.min_rr
                   * (pure_call.inp.pos.entry_price * StopScale - pure_call.out.sl_price)

(***************************************************************************)
(* The two drivers under a risk configuration that is an input (checked    *)
(* under SpecBacktestRun).  pure_call.inp is config.risk of both, bt the   *)
(* locals of BacktestRunner.run().                                         *)
(***************************************************************************)
MaxLimit == 3

\* RiskManager.allow_new_trade of a manager built with risk.
allow_new_trade_of(risk, s) ==
    IF s.trades_count >= risk.max_trades_per_day THEN FALSE
    ELSE IF s.realized_loss_rub >= risk.daily_loss_limit_rub * Scale THEN FALSE
    ELSE TRUE

\* The BUY branch of the loop body with self.risk = RiskManager(risk).
backtest_buy_of(risk, B, sig, quote) ==
    LET exec_in == execute([side |-> "BUY", best_bid |-> quote.bid, best_ask |-> quote.ask,
                            lot_size |-> LotSize, max_position_rub |-> MaxPositionRub,
                            desired_position_shares |-> None])
        open_pos == assign_stops_for_long(
                        [entry_price |-> exec_in.exec_price, qty_shares |-> exec_in.qty_shares,
                         sl_price |-> None, tp_price |-> None])
    IN IF B.open_pos # NoPosition THEN B
       ELSE IF ~allow_new_trade_of(risk, B.day_stats) THEN B
       ELSE IF exec_in = NoTrade \/ exec_in.qty_shares <= 0 THEN B
       ELSE [B EXCEPT !.open_pos = open_pos,
                      !.entry_trade_meta = exec_in,
                      !.day_stats.trades_count = @ + 1,
                      !.fills = Append(@, "BUY")]

backtest_step_of(risk, B, sig, bar) ==
    LET quote == best_bid_ask_from_bar(bar)
    IN IF sig.type = "BUY" THEN backtest_buy_of(risk, B, sig, quote)
       ELSE IF sig.type \in {"SELL", "CLOSE_LONG"} THEN backtest_sell(B, sig, quote)
       ELSE B

\* _process_signal of an engine whose risk_mgr = RiskManager(risk), run to
\* completion.
process_signal_pre_of(risk, E, signal, market_data) ==
    LET best_bid == market_data.BID
        best_ask == market_data.OFFER
        last_price == IF Truthy(market_data.LAST) THEN market_data.LAST ELSE market_data.OFFER
    IN IF ~allow_new_trade_of(risk, E.day_stats) THEN "Trade rejected: daily limits exceeded"
       ELSE IF signal.type = "BUY"
       THEN IF E.current_position # NoPosition
            THEN "Ignoring BUY signal: position already open"
            ELSE IF ~Truthy(best_ask) \/ ~Truthy(last_price)
            THEN "Insufficient market data for BUY execution"
            ELSE "await"
       ELSE IF signal.type \in {"SELL", "CLOSE_LONG"}
       THEN IF E.current_position = NoPosition
            THEN "Ignoring sell signal: no open position"
            ELSE IF ~Truthy(best_bid)
            THEN "Insufficient market data for SELL execution"
            ELSE "await"
       ELSE ""

process_signal_of(risk, E, signal, market_data, sec) ==
    IF process_signal_pre_of(risk, E, signal, market_data) = "await"
    THEN process_signal_post(E, E.current_position, signal, market_data, sec)
    ELSE EngineOut(E, process_signal_pre_of(risk, E, signal, market_data), FALSE)

DayLimits ==
    [max_trades_per_day : 1..MaxLimit, daily_loss_limit_rub : {DailyLossLimitRub}]

\* run() is called on a runner whose configuration is one of DayLimits.
InitBacktestRun ==
    /\ InitTrade /\ InitBacktest /\ InitFeed /\ InitLife /\ InitClient /\ InitCache /\ InitDb
    /\ pure_call \in {[fn |-> "BacktestRunner.run", done |-> FALSE, inp |-> risk] :
                          risk \in DayLimits}

\* One pass of `for sig in signals`.
RunSignal(type, bar) ==
    /\ pure_call.fn = "BacktestRunner.run"
    /\ bt' = backtest_step_of(pure_call.inp, bt, [type |-> type], bar)
    /\ pure_call' = [pure_call EXCEPT !.done = TRUE]
    /\ UNCHANGED <<tradeVars, feedVars, lifeVars, clientVars, cacheVars, dbVars>>

\* The live engine with the same configuration processes a signal.
RunLiveSignal(type, md, sec) ==
    /\ pure_call.fn = "BacktestRunner.run"
    /\ LET out == process_signal_of(pure_call.inp, EngineView, [type |-> type], md, sec)
       IN /\ current_position' = out.current_position
          /\ day_stats' = out.day_stats
          /\ trade_history' = out.trade_history
          /\ total_pnl' = out.total_pnl
          /\ stats' = [stats EXCEPT !.trades_executed = out.trades_executed]
          /\ last_log' = IF out.raised THEN "AsyncMoexClientError" ELSE out.log
    /\ UNCHANGED <<btVars, feedVars, lifeVars, clientVars, cacheVars, callVars>>

NextBacktestRun ==
    \/ \E type \in SignalTypes, bar \in Bars : RunSignal(type, bar)
    \/ \E type \in SignalTypes, md \in Snapshots, sec \in SecInfoResults :
           RunLiveSignal(type, md, sec)

SpecBacktestRun == InitBacktestRun /\ [][NextBacktestRun]_vars

\* C38: DayStats.trades_count never exceeds max_trades_per_day, after any
\* sequence of signals, in the live engine and in a backtest run, whatever
\* limit is configured.
C38_TradesCountWithinLimit ==
    pure_call.fn = "BacktestRunner.run"
        => /\ day_stats.trades_count <= pure_call.inp.max_trades_per_day
           /\ bt.day_stats.trades_count <= pure_call.inp.max_trades_per_day

(***************************************************************************)
(* Further claim about the daily-limit gate of the live engine (checked    *)
(* under SpecRestart)                                                      *)
(***************************************************************************)
\* C39: in the live engine, whenever a position is open the daily-limit
\* gate admits trades (trades_count < max_trades_per_day and realized_loss <
\* daily_loss_limit), so no exit for an open position is rejected by
\* allow_new_trade.
C39_OpenPositionGateOpen ==
    current_position # NoPosition => allow_new_trade(day_stats)

(***************************************************************************)
(* The main loop over a growing candle cache (checked under SpecReplay).   *)
(* pure_call is the loop's view of the cache, its position in the          *)
(* iteration and a log of what it did:                                     *)
(*   inp.bars    = number of candles the cache holds (past the minimum)    *)
(*   inp.signals = generate_signals(candles): at most one signal per bar,  *)
(*                 in bar order; a finalized candle never changes, so the  *)
(*                 signal of a bar is the same in every later iteration    *)
(*   out.iteration = iterations begun so far                               *)
(*   out.pc, out.idx, out.md = "sleep", or "signals" with the index of the *)
(*                 next signal of the `for` loop and the iteration's quote *)
(*   out.acted   = [bar, type, iteration] for every signal whose           *)
(*                 _process_signal executed a trade                        *)
(***************************************************************************)
MaxReplayBars == 2
MaxReplayIterations == 3

InitReplay ==
    /\ InitTrade /\ InitBacktest /\ InitFeed /\ InitLife /\ InitClient /\ InitCache /\ InitDb
    /\ pure_call = [fn |-> "_trading_iteration", done |-> FALSE,
                    inp |-> [bars |-> 0, signals |-> << >>],
                    out |-> [iteration |-> 0, pc |-> "sleep", idx |-> 0, md |-> NoMarketData,
                             acted |-> {}]]

\* Between two iterations another candle closes; the strategy has a signal
\* for it (type) or none ("NONE").
FinalizeCandle(type) ==
    /\ pure_call.fn = "_trading_iteration" /\ ~pure_call.done
    /\ pure_call.out.pc = "sleep"
    /\ pure_call.inp.bars < MaxReplayBars
    /\ pure_call' =
          [pure_call EXCEPT
              !.inp.bars = @ + 1,
              !.inp.signals = IF type = "NONE" THEN @
                              ELSE Append(@, [type |-> type, bar |-> pure_call.inp.bars + 1])]
    /\ UNCHANGED <<tradeVars, btVars, feedVars, lifeVars, clientVars, cacheVars, dbVars>>

\* _trading_iteration inside the session window, up to `for signal in
\* signals`: the quote is fetched and the signals of the whole cache are
\* generated.
BeginIteration(md) ==
    /\ pure_call.fn = "_trading_iteration" /\ ~pure_call.done
    /\ pure_call.out.pc = "sleep"
    /\ pure_call.out.iteration < MaxReplayIterations
    /\ pure_call' = [pure_call EXCEPT !.out.iteration = @ + 1, !.out.pc = "signals",
                                      !.out.idx = 1, !.out.md = md]
    /\ stats' = [stats EXCEPT !.signals_processed = @ + Len(pure_call.inp.signals)]
    /\ UNCHANGED <<current_position, day_stats, trade_history, total_pnl, last_log,
                   btVars, feedVars, lifeVars, clientVars, cacheVars, dbVars>>

\* One pass of `for signal in signals: await self._process_signal(...)`.  An
\* exception of get_security_info ends the iteration and (through the
\* failing send_alert) the loop.
ProcessNextSignal(sec) ==
    /\ pure_call.fn = "_trading_iteration" /\ ~pure_call.done
    /\ pure_call.out.pc = "signals"
    /\ pure_call.out.idx <= Len(pure_call.inp.signals)
    /\ LET sig == pure_call.inp.signals[pure_call.out.idx]
           out == process_signal(EngineView, [type |-> sig.type], pure_call.out.md, sec)
           executed == out.trades_executed # stats.trades_executed
       IN /\ current_position' = out.current_position
          /\ day_stats' = out.day_stats
          /\ trade_history' = out.trade_history
          /\ total_pnl' = out.total_pnl
          /\ stats' = [stats EXCEPT !.trades_executed = out.trades_executed,
                                    !.errors = IF out.raised THEN @ + 1 ELSE @]
          /\ last_log' = IF out.raised THEN "AsyncMoexClientError" ELSE out.log
          /\ pure_call' =
                [pure_call EXCEPT
                    !.done = out.raised,
                    !.out.idx = @ + 1,
                    !.out.acted = IF executed
                                  THEN @ \cup {[bar |-> sig.bar, type |-> sig.type,
                                                iteration |-> pure_call.out.iteration]}
                                  ELSE @]
    /\ UNCHANGED <<btVars, feedVars, lifeVars, clientVars, cacheVars, dbVars>>

\* After the last signal: _check_position_exits, then the iteration returns
\* and the loop sleeps.
CheckPositionExits(sec) ==
    /\ pure_call.fn = "_trading_iteration" /\ ~pure_call.done
    /\ pure_call.out.pc = "signals"
    /\ pure_call.out.idx > Len(pure_call.inp.signals)
    /\ LET out == IF NeedsExit(EngineView, pure_call.out.md)
                  THEN process_signal(EngineView, ExitSignal, pure_call.out.md, sec)
                  ELSE EngineOut(EngineView, last_log, FALSE)
       IN /\ current_position' = out.current_position
          /\ day_stats' = out.day_stats
          /\ trade_history' = out.trade_history
          /\ total_pnl' = out.total_pnl
          /\ stats' = [stats EXCEPT !.trades_executed = out.trades_executed,
                                    !.iterations = IF out.raised THEN @ ELSE @ + 1,
                                    !.errors = IF out.raised THEN @ + 1 ELSE @]
          /\ last_log' = IF out.raised THEN "AsyncMoexClientError" ELSE out.log
          /\ pure_call' = [pure_call EXCEPT !.done = out.raised, !.out.pc = "sleep",
                                            !.out.idx = 0, !.out.md = NoMarketData]
    /\ UNCHANGED <<btVars, feedVars, lifeVars, clientVars, cacheVars, dbVars>>

NextReplay ==
    \/ \E type \in SignalTypes \cup {"NONE"} : FinalizeCandle(type)
    \/ \E md \in Snapshots : BeginIteration(md)
    \/ \E sec \in SecInfoResults : ProcessNextSignal(sec)
    \/ \E sec \in SecInfoResults : CheckPositionExits(sec)

SpecReplay == InitReplay /\ [][NextReplay]_vars

\* C37: in live mode the signal derived from a given candle is acted on in
\* at most one loop iteration: no two executed trades come from the signal
\* of the same bar in different iterations.
C37_BarSignalActedOnce ==
    pure_call.fn = "_trading_iteration" =>
        \A a, b \in pure_call.out.acted : a.bar = b.bar => a.iteration = b.iteration

====
